---------------------------- MODULE Spec2Model ----------------------------
(***************************************************************************)
(* Model of the transaction simulator of backend/blockchain_simulator.py   *)
(* (class EthereumSimulator) and of the collaborators it calls.            *)
(*                                                                         *)
(* Representation                                                          *)
(*   - a Python str is a sequence of one-character strings;                *)
(*   - a Python bytes object is a sequence of integers 0..255;             *)
(*   - a Python int is a sign and a magnitude of 16-bit limbs, so that     *)
(*     the 256-bit amounts keep their full width;                          *)
(*   - an address in canonical (EIP-55) form is represented by the 20      *)
(*     bytes it denotes: the letter case of the canonical text is a        *)
(*     function of those bytes.                                            *)
(***************************************************************************)
EXTENDS Integers, Sequences, FiniteSets, TLC

(***************************************************************************)
(* Characters, hexadecimal text and bytes                                  *)
(***************************************************************************)
DecDigits == <<"0", "1", "2", "3", "4", "5", "6", "7", "8", "9">>

LowerHex == DecDigits \o <<"a", "b", "c", "d", "e", "f">>

UpperHex == DecDigits \o <<"A", "B", "C", "D", "E", "F">>

Range(s) == {s[i] : i \in 1..Len(s)}

IsDecDigit(c) == c \in Range(DecDigits)

IsHexChar(c) == c \in Range(LowerHex) \cup Range(UpperHex)

\* value of one hexadecimal digit, either letter case
HexVal(c) ==
    IF c \in Range(LowerHex)
    THEN (CHOOSE i \in 1..16 : LowerHex[i] = c) - 1
    ELSE (CHOOSE i \in 1..16 : UpperHex[i] = c) - 1

DecVal(c) == (CHOOSE i \in 1..10 : DecDigits[i] = c) - 1

\* str.lower() on the characters that occur in hexadecimal text
LowerChar(c) ==
    IF c \in Range(UpperHex) THEN LowerHex[HexVal(c) + 1]
    ELSE IF c = "X" THEN "x" ELSE c

Lower(s) == [i \in 1..Len(s) |-> LowerChar(s[i])]

\* bytes.fromhex(s): every character a hex digit, an even number of them
BytesFromHex(s) ==
    IF Len(s) % 2 = 0 /\ \A i \in 1..Len(s) : IsHexChar(s[i])
    THEN [ok |-> TRUE,
          bytes |-> [i \in 1..(Len(s) \div 2) |->
                        16 * HexVal(s[2 * i - 1]) + HexVal(s[2 * i])]]
    ELSE [ok |-> FALSE, bytes |-> <<>>]

\* bytes.hex(): lower-case text, two digits per byte
HexOfBytes(b) ==
    [i \in 1..(2 * Len(b)) |->
        IF i % 2 = 1 THEN LowerHex[(b[(i + 1) \div 2] \div 16) + 1]
                     ELSE LowerHex[(b[i \div 2] % 16) + 1]]

Zeros(n) == [i \in 1..n |-> 0]

AllZero(b) == \A i \in 1..Len(b) : b[i] = 0

(***************************************************************************)
(* Arbitrary-precision integers (Python int).  A magnitude is a big-endian *)
(* sequence of limbs in base 65536; leading zero limbs do not matter.      *)
(***************************************************************************)
LimbBase == 256 * 256

DecChunk == 10 * 10 * 10 * 10

RECURSIVE StripZeros(_)
\* magnitude without leading zero limbs
StripZeros(b) ==
    IF Len(b) > 0 /\ b[1] = 0 THEN StripZeros(Tail(b)) ELSE b

RECURSIVE MagLess(_, _)
\* a < b on stripped magnitudes of the same length
MagLess(a, b) ==
    IF Len(a) = 0 THEN FALSE
    ELSE IF a[1] # b[1] THEN a[1] < b[1]
    ELSE MagLess(Tail(a), Tail(b))

\* a >= b on magnitudes
MagGE(a, b) ==
    LET x == StripZeros(a)
        y == StripZeros(b)
    IN  IF Len(x) # Len(y) THEN Len(x) > Len(y) ELSE ~MagLess(x, y)

RECURSIVE MulAdd(_, _, _)
\* b * m + c for a magnitude b and small m, c: schoolbook, low limb first
MulAdd(b, m, c) ==
    IF Len(b) = 0
    THEN (IF c = 0 THEN <<>>
          ELSE MulAdd(<<>>, m, c \div LimbBase) \o <<c % LimbBase>>)
    ELSE LET t == b[Len(b)] * m + c
         IN  MulAdd(SubSeq(b, 1, Len(b) - 1), m, t \div LimbBase)
                 \o <<t % LimbBase>>

RECURSIVE DivMod(_, _, _)
\* quotient and remainder of magnitude b by small d, high limb first, with
\* incoming remainder r
DivMod(b, d, r) ==
    IF Len(b) = 0 THEN [q |-> <<>>, r |-> r]
    ELSE LET t == r * LimbBase + b[1]
             rest == DivMod(Tail(b), d, t % d)
         IN  [q |-> <<t \div d>> \o rest.q, r |-> rest.r]

\* the decimal digits of n < 10000, all four of them or without leading zeros
ChunkDigits(n, padded) ==
    LET all == <<DecDigits[(n \div 1000) + 1], DecDigits[((n \div 100) % 10) + 1],
                 DecDigits[((n \div 10) % 10) + 1], DecDigits[(n % 10) + 1]>>
        skip == IF n >= 1000 THEN 0 ELSE IF n >= 100 THEN 1
                ELSE IF n >= 10 THEN 2 ELSE 3
    IN  IF padded THEN all ELSE SubSeq(all, skip + 1, 4)

RECURSIVE DecDigitsOf(_)
\* decimal digits of a stripped, non-zero magnitude
DecDigitsOf(b) ==
    LET d == DivMod(b, DecChunk, 0)
        q == StripZeros(d.q)
    IN  IF Len(q) = 0 THEN ChunkDigits(d.r, FALSE)
        ELSE DecDigitsOf(q) \o ChunkDigits(d.r, TRUE)

\* str(n) for a non-negative int given by its magnitude
PyStr(b) ==
    IF AllZero(b) THEN <<"0">> ELSE DecDigitsOf(StripZeros(b))

\* value of at most four decimal digits
ChunkVal(s) ==
    LET d(i) == IF i <= Len(s) THEN DecVal(s[Len(s) + 1 - i]) ELSE 0
    IN  d(1) + 10 * d(2) + 100 * d(3) + 1000 * d(4)

RECURSIVE MagOfDec(_)
\* magnitude denoted by a sequence of decimal digits (Horner's rule, four
\* digits at a time)
MagOfDec(s) ==
    IF Len(s) <= 4 THEN MulAdd(<<>>, 1, ChunkVal(s))
    ELSE MulAdd(MagOfDec(SubSeq(s, 1, Len(s) - 4)), DecChunk,
                ChunkVal(SubSeq(s, Len(s) - 3, Len(s))))

\* int(s): an optional sign followed by one or more decimal digits; anything
\* else raises ValueError (ok = FALSE)
PyInt(s) ==
    LET signed == Len(s) > 0 /\ s[1] \in {"-", "+"}
        body == IF signed THEN Tail(s) ELSE s
    IN  IF Len(body) > 0 /\ \A i \in 1..Len(body) : IsDecDigit(body[i])
        THEN [ok |-> TRUE,
              neg |-> signed /\ s[1] = "-" /\ ~AllZero(MagOfDec(body)),
              mag |-> MagOfDec(body)]
        ELSE [ok |-> FALSE, neg |-> FALSE, mag |-> <<>>]

\* int.from_bytes(b, 'big') for an even number of bytes
MagOfBytes(b) ==
    [i \in 1..(Len(b) \div 2) |-> 256 * b[2 * i - 1] + b[2 * i]]

(***************************************************************************)
(* Text helpers                                                            *)
(***************************************************************************)
\* s[:n]
Take(s, n) == SubSeq(s, 1, IF n < Len(s) THEN n ELSE Len(s))

\* s[n:]
Drop(s, n) == SubSeq(s, n + 1, Len(s))

Prefix0x == <<"0", "x">>

None == <<"None">>

(***************************************************************************)
(* eth_utils.to_checksum_address: accepts 40 hex digits of either case     *)
(* with an optional 0x / 0X prefix and returns the canonical address;      *)
(* anything else raises ValueError.                                        *)
(***************************************************************************)
to_checksum_address(s) ==
    LET body == IF Take(s, 2) \in {<<"0", "x">>, <<"0", "X">>}
                THEN Drop(s, 2) ELSE s
    IN  IF Len(body) = 40 /\ BytesFromHex(body).ok
        THEN [ok |-> TRUE, addr |-> BytesFromHex(body).bytes]
        ELSE [ok |-> FALSE, addr |-> <<>>]

\* the text of a canonical address as it is interpolated into a message
AddressText(a) == Prefix0x \o HexOfBytes(a)

(***************************************************************************)
(* eth_abi.decode for the static types the simulator uses.  Parameter i    *)
(* occupies bytes 32(i-1)+1 .. 32i; the first parameter that cannot be     *)
(* read raises.  Bytes after the last slot are ignored.                    *)
(***************************************************************************)
SlotBytes == 32

Slot(data, i) == SubSeq(data, SlotBytes * (i - 1) + 1, SlotBytes * i)

SlotError(type, data, i) ==
    IF Len(data) < SlotBytes * i THEN "InsufficientDataBytes"
    ELSE IF type = "address" /\ ~AllZero(SubSeq(Slot(data, i), 1, 12))
         THEN "NonEmptyPaddingBytes"
    ELSE IF type = "bool" /\ ~(AllZero(SubSeq(Slot(data, i), 1, 31))
                               /\ Slot(data, i)[32] \in {0, 1})
         THEN "NonEmptyPaddingBytes"
    ELSE "ok"

SlotValue(type, data, i) ==
    IF type = "address" THEN AddressText(SubSeq(Slot(data, i), 13, 32))
    ELSE IF type = "bool" THEN Slot(data, i)[32] = 1
    ELSE MagOfBytes(Slot(data, i))

abi_decode(types, data) ==
    LET bad == {i \in 1..Len(types) : SlotError(types[i], data, i) # "ok"}
        first == CHOOSE i \in bad : \A j \in bad : i <= j
    IN  IF bad = {}
        THEN [ok |-> TRUE, reason |-> "ok",
              params |-> [i \in 1..Len(types) |-> SlotValue(types[i], data, i)]]
        ELSE [ok |-> FALSE, reason |-> SlotError(types[first], data, first),
              params |-> <<>>]

\* decode(types, bytes.fromhex(calldata))
decode(types, calldata) ==
    IF BytesFromHex(calldata).ok
    THEN abi_decode(types, BytesFromHex(calldata).bytes)
    ELSE [ok |-> FALSE, reason |-> "ValueError", params |-> <<>>]

(***************************************************************************)
(* Class constants of EthereumSimulator                                    *)
(***************************************************************************)
TRANSFER_SIG == <<"a", "9", "0", "5", "9", "c", "b", "b">>

APPROVE_SIG == <<"0", "9", "5", "e", "a", "7", "b", "3">>

TRANSFER_FROM_SIG == <<"2", "3", "b", "8", "7", "2", "d", "d">>

SAFE_TRANSFER_FROM_SIG == <<"4", "2", "8", "4", "2", "e", "0", "e">>

SET_APPROVAL_FOR_ALL_SIG == <<"a", "2", "2", "c", "b", "4", "6", "5">>

\* 2**256 - 1
UNLIMITED_APPROVAL == [i \in 1..16 |-> LimbBase - 1]

\* The 53-bit significand of the double nearest to 0.9,
\* 0x1CCCCCCCCCCCCD = 0.9 * 2^53 rounded to nearest.
DOUBLE_0_9 == <<28, 52428, 52428, 52429>>

\* self.UNLIMITED_APPROVAL * 0.9.  The int operand is converted to a double
\* first: 2^256 - 1 has 256 one bits and rounds to 2^256.  The product
\* 0x1CCCCCCCCCCCCD * 2^(256 - 53) is exact; as an integer it is the
\* significand times 2^11 followed by 192 zero bits.
UNLIMITED_TIMES_0_9 == MulAdd(DOUBLE_0_9, 2048, 0) \o Zeros(12)

\* n >= self.UNLIMITED_APPROVAL * 0.9 for a Python int n: an int and a
\* float are compared by their exact values
GEThreshold(n) == ~n.neg /\ MagGE(n.mag, UNLIMITED_TIMES_0_9)

(***************************************************************************)
(* TransactionEffect and warnings                                          *)
(***************************************************************************)
TransactionEffect(from, to, value, type, token, symbol, approval) ==
    [from_address |-> from, to_address |-> to, value |-> value,
     effect_type |-> type, token_address |-> token, token_symbol |-> symbol,
     approval_amount |-> approval]

\* a warning string: its fixed text and the value interpolated into it
Warning(text, arg) == [text |-> text, arg |-> arg]

NoEffect == <<>>

(***************************************************************************)
(* The decoders.  Each returns [effect, warnings]: effect is a sequence    *)
(* of zero or one TransactionEffect (None or the effect), warnings the     *)
(* list returned with it (empty where the code returns None or has no      *)
(* second component), raised tells that the except branch ran.             *)
(***************************************************************************)
_decode_approve(from_address, token_address, calldata) ==
    LET d == decode(<<"address", "uint256">>, calldata)
        spender == to_checksum_address(d.params[1]).addr
        amount == PyStr(d.params[2])
        unlimited == GEThreshold([neg |-> FALSE, mag |-> d.params[2]])
    IN  IF d.ok
        THEN [effect |-> <<TransactionEffect(from_address, spender, <<"0">>,
                              "approve", token_address, "UNKNOWN_TOKEN",
                              amount)>>,
              warnings |->
                 IF unlimited
                 THEN <<Warning("UNLIMITED TOKEN APPROVAL DETECTED", <<>>),
                        Warning("This allows {} to spend ALL your tokens forever!",
                                AddressText(spender)),
                        Warning("This is a common pattern used by token drainer scams",
                                <<>>)>>
                 ELSE <<>>,
              raised |-> FALSE]
        ELSE [effect |-> NoEffect,
              warnings |-> <<Warning("Failed to decode approve call: {}",
                                     <<d.reason>>)>>,
              raised |-> TRUE]

\* _decode_transfer with an except branch that returns a default effect
_decode_transfer_default(from_address, token_address, calldata) ==
    LET d == decode(<<"address", "uint256">>, calldata)
        to == to_checksum_address(d.params[1]).addr
        amount == PyStr(d.params[2])
    IN  IF d.ok
        THEN [effect |-> <<TransactionEffect(from_address, to, amount,
                              "transfer", token_address, "UNKNOWN_TOKEN",
                              None)>>,
              warnings |-> <<>>, raised |-> FALSE]
        ELSE [effect |-> <<TransactionEffect(from_address, Zeros(20), <<"0">>,
                              "transfer", token_address, "UNKNOWN_TOKEN",
                              None)>>,
              warnings |-> <<>>, raised |-> TRUE]

_decode_transfer(from_address, token_address, calldata) ==
    LET d == decode(<<"address", "uint256">>, calldata)
        to == to_checksum_address(d.params[1]).addr
        amount == PyStr(d.params[2])
    IN  IF d.ok
        THEN [effect |-> <<TransactionEffect(from_address, to, amount,
                              "transfer", token_address, "UNKNOWN_TOKEN",
                              None)>>,
              warnings |-> <<>>, raised |-> FALSE]
        ELSE [effect |-> NoEffect, warnings |-> <<>>, raised |-> TRUE]

\* _decode_transfer_from with the two decoded addresses exchanged
_decode_transfer_from_swapped(token_address, calldata) ==
    LET d == decode(<<"address", "address", "uint256">>, calldata)
        from_addr == to_checksum_address(d.params[1]).addr
        to_addr == to_checksum_address(d.params[2]).addr
        amount == PyStr(d.params[3])
    IN  IF d.ok
        THEN [effect |-> <<TransactionEffect(to_addr, from_addr, amount,
                              "transferFrom", token_address, "UNKNOWN_TOKEN",
                              None)>>,
              warnings |-> <<>>, raised |-> FALSE]
        ELSE [effect |-> NoEffect, warnings |-> <<>>, raised |-> TRUE]

_decode_transfer_from(token_address, calldata) ==
    LET d == decode(<<"address", "address", "uint256">>, calldata)
        from_addr == to_checksum_address(d.params[1]).addr
        to_addr == to_checksum_address(d.params[2]).addr
        amount == PyStr(d.params[3])
    IN  IF d.ok
        THEN [effect |-> <<TransactionEffect(from_addr, to_addr, amount,
                              "transferFrom", token_address, "UNKNOWN_TOKEN",
                              None)>>,
              warnings |-> <<>>, raised |-> FALSE]
        ELSE [effect |-> NoEffect, warnings |-> <<>>, raised |-> TRUE]

\* _decode_set_approval_for_all without the test of approved before the
\* warnings
_decode_set_approval_for_all_always_warns(from_address, nft_contract, calldata) ==
    LET d == decode(<<"address", "bool">>, calldata)
        operator == to_checksum_address(d.params[1]).addr
        approved == d.params[2]
    IN  IF d.ok
        THEN [effect |-> <<TransactionEffect(from_address, operator, <<"0">>,
                              "setApprovalForAll", nft_contract, "NFT",
                              IF approved THEN <<"A", "L", "L">> ELSE <<"0">>)>>,
              warnings |->
                 <<Warning("NFT APPROVAL FOR ALL DETECTED", <<>>),
                   Warning("This allows {} to transfer ALL your NFTs in this collection!",
                           AddressText(operator)),
                   Warning("Common in NFT phishing scams - verify the operator address carefully",
                           <<>>)>>,
              raised |-> FALSE]
        ELSE [effect |-> NoEffect,
              warnings |-> <<Warning("Failed to decode NFT approval: {}",
                                     <<d.reason>>)>>,
              raised |-> TRUE]

_decode_set_approval_for_all(from_address, nft_contract, calldata) ==
    LET d == decode(<<"address", "bool">>, calldata)
        operator == to_checksum_address(d.params[1]).addr
        approved == d.params[2]
    IN  IF d.ok
        THEN [effect |-> <<TransactionEffect(from_address, operator, <<"0">>,
                              "setApprovalForAll", nft_contract, "NFT",
                              IF approved THEN <<"A", "L", "L">> ELSE <<"0">>)>>,
              warnings |->
                 IF approved
                 THEN <<Warning("NFT APPROVAL FOR ALL DETECTED", <<>>),
                        Warning("This allows {} to transfer ALL your NFTs in this collection!",
                                AddressText(operator)),
                        Warning("Common in NFT phishing scams - verify the operator address carefully",
                                <<>>)>>
                 ELSE <<>>,
              raised |-> FALSE]
        ELSE [effect |-> NoEffect,
              warnings |-> <<Warning("Failed to decode NFT approval: {}",
                                     <<d.reason>>)>>,
              raised |-> TRUE]

_decode_nft_transfer(nft_contract, calldata) ==
    LET d == decode(<<"address", "address", "uint256">>, calldata)
        from_addr == to_checksum_address(d.params[1]).addr
        to_addr == to_checksum_address(d.params[2]).addr
        token_id == PyStr(d.params[3])
    IN  IF d.ok
        THEN [effect |-> <<TransactionEffect(from_addr, to_addr, token_id,
                              "nftTransfer", nft_contract, "NFT", None)>>,
              warnings |-> <<>>, raised |-> FALSE]
        ELSE [effect |-> NoEffect, warnings |-> <<>>, raised |-> TRUE]

(***************************************************************************)
(* _calculate_risk                                                         *)
(***************************************************************************)
\* EffectScore with a revoked collection approval lowering the score
EffectScore_revocation_lowers(effect) ==
    IF effect.effect_type = "approve"
    THEN (IF effect.approval_amount # None /\ effect.approval_amount # <<>>
             /\ GEThreshold(PyInt(effect.approval_amount))
          THEN 70 ELSE 10)
    ELSE IF effect.effect_type = "setApprovalForAll"
    THEN (IF effect.approval_amount = <<"A", "L", "L">> THEN 65 ELSE -5)
    ELSE IF effect.effect_type \in {"transfer", "transferFrom"}
    THEN 5
    ELSE 0

\* EffectScore with transfers adding nothing
EffectScore_transfer_unscored(effect) ==
    IF effect.effect_type = "approve"
    THEN (IF effect.approval_amount # None /\ effect.approval_amount # <<>>
             /\ GEThreshold(PyInt(effect.approval_amount))
          THEN 70 ELSE 10)
    ELSE IF effect.effect_type = "setApprovalForAll"
    THEN (IF effect.approval_amount = <<"A", "L", "L">> THEN 65 ELSE 0)
    ELSE 0

\* EffectScore with the token id of an NFT transfer treated as an amount
EffectScore_token_id_as_amount(effect) ==
    IF effect.effect_type = "approve"
    THEN (IF effect.approval_amount # None /\ effect.approval_amount # <<>>
             /\ GEThreshold(PyInt(effect.approval_amount))
          THEN 70 ELSE 10)
    ELSE IF effect.effect_type = "setApprovalForAll"
    THEN (IF effect.approval_amount = <<"A", "L", "L">> THEN 65 ELSE 0)
    ELSE IF effect.effect_type \in {"transfer", "transferFrom"}
    THEN 5
    ELSE IF effect.effect_type = "nftTransfer"
    THEN (IF GEThreshold(PyInt(effect.value)) THEN 70 ELSE 0)
    ELSE 0

\* the amount added to risk_score by one pass of the loop body
EffectScore(effect) ==
    IF effect.effect_type = "approve"
    THEN (IF effect.approval_amount # None /\ effect.approval_amount # <<>>
             /\ GEThreshold(PyInt(effect.approval_amount))
          THEN 70 ELSE 10)
    ELSE IF effect.effect_type = "setApprovalForAll"
    THEN (IF effect.approval_amount = <<"A", "L", "L">> THEN 65 ELSE 0)
    ELSE IF effect.effect_type \in {"transfer", "transferFrom"}
    THEN 5
    ELSE 0

\* the loop leaving after the first effect
EffectLoop_first_only(effects, risk_score) ==
    IF Len(effects) = 0 THEN risk_score
    ELSE risk_score + EffectScore(Head(effects))

RECURSIVE EffectLoop(_, _)
\* for effect in effects: risk_score += ...
EffectLoop(effects, risk_score) ==
    IF Len(effects) = 0 THEN risk_score
    ELSE EffectLoop(Tail(effects), risk_score + EffectScore(Head(effects)))

Min(a, b) == IF b < a THEN b ELSE a

\* RiskLevel with a score of exactly 30 left at safe
RiskLevel_above_30(risk_score) ==
    IF risk_score >= 60 THEN "danger"
    ELSE IF risk_score > 30 THEN "warning"
    ELSE "safe"

RiskLevel(risk_score) ==
    IF risk_score >= 60 THEN "danger"
    ELSE IF risk_score >= 30 THEN "warning"
    ELSE "safe"

\* _calculate_risk with the contract address taken into the score
_calculate_risk_by_address(effects, warnings, to_address) ==
    LET risk_score ==
            Min(100, EffectLoop(effects, 0) + Len(warnings) * 15
                     + (IF to_address[20] % 2 = 1 THEN 20 ELSE 0))
    IN  [risk_level |-> RiskLevel(risk_score), risk_score |-> risk_score]

_calculate_risk(effects, warnings, to_address) ==
    LET risk_score == Min(100, EffectLoop(effects, 0) + Len(warnings) * 15)
    IN  [risk_level |-> RiskLevel(risk_score), risk_score |-> risk_score]

(***************************************************************************)
(* The chain oracle (AlchemySimulator) as simulate_transaction sees it.    *)
(* What one call does is an input of the step:                             *)
(*   unavailable        is_available() is false;                           *)
(*   raises             available when asked, but the call raises;         *)
(*   success            eth_call succeeds;                                 *)
(*   reverts            ContractLogicError with a message;                 *)
(*   reverts_no_reason  ContractLogicError whose message is empty;         *)
(*   error              any other exception inside the call, returned as   *)
(*                      success = False without a revert_reason.           *)
(***************************************************************************)
OracleOutcomes ==
    {"unavailable", "raises", "success", "reverts", "reverts_no_reason", "error"}

\* lines 170-185: the warnings the oracle call appends
OracleWarnings(oracle) ==
    IF oracle = "reverts"
    THEN <<Warning("Transaction would REVERT on actual blockchain", <<>>),
           Warning("Reason: {}", <<"execution reverted">>)>>
    ELSE IF oracle \in {"reverts_no_reason", "error"}
    THEN <<Warning("Transaction would REVERT on actual blockchain", <<>>)>>
    ELSE <<>>

\* what token metadata the oracle has when _get_contract_info asks
\* (unavailable: is_available() is false; token: the three eth_calls succeed;
\* error: they fail, and get_token_info returns its defaults)
InfoOutcomes == {"unavailable", "token", "error"}

_get_contract_info(self_alchemy, info) ==
    IF self_alchemy # "None" /\ info = "token"
    THEN [is_contract |-> TRUE, verified |-> FALSE, name |-> "Tether USD",
          symbol |-> "USDT", decimals |-> 6, has_audit |-> FALSE]
    ELSE IF self_alchemy # "None" /\ info = "error"
    THEN [is_contract |-> TRUE, verified |-> FALSE, name |-> "Unknown",
          symbol |-> "???", decimals |-> 18, has_audit |-> FALSE]
    ELSE [is_contract |-> TRUE, verified |-> FALSE, name |-> "Unknown Contract",
          symbol |-> "absent", decimals |-> 0, has_audit |-> FALSE]

NoInfo ==
    [is_contract |-> FALSE, verified |-> FALSE, name |-> "absent",
     symbol |-> "absent", decimals |-> 0, has_audit |-> FALSE]

(***************************************************************************)
(* simulate_transaction                                                    *)
(***************************************************************************)
BASE_GAS == 21000

CONTRACT_GAS == 50000

UNKNOWN_GAS == 100000

Selector(sig) == Prefix0x \o sig

\* lines 188-225: the dispatch on the function signature
DecodeCall(from_address, to_address, data) ==
    LET function_sig == Take(data, 10)
        calldata == Drop(data, 10)
    IN  IF function_sig = Selector(APPROVE_SIG)
        THEN _decode_approve(from_address, to_address, calldata)
                @@ [gas |-> CONTRACT_GAS, known |-> TRUE]
        ELSE IF function_sig = Selector(TRANSFER_SIG)
        THEN _decode_transfer(from_address, to_address, calldata)
                @@ [gas |-> CONTRACT_GAS, known |-> TRUE]
        ELSE IF function_sig = Selector(TRANSFER_FROM_SIG)
        THEN _decode_transfer_from(to_address, calldata)
                @@ [gas |-> CONTRACT_GAS, known |-> TRUE]
        ELSE IF function_sig = Selector(SET_APPROVAL_FOR_ALL_SIG)
        THEN _decode_set_approval_for_all(from_address, to_address, calldata)
                @@ [gas |-> CONTRACT_GAS, known |-> TRUE]
        ELSE IF function_sig = Selector(SAFE_TRANSFER_FROM_SIG)
        THEN _decode_nft_transfer(to_address, calldata)
                @@ [gas |-> CONTRACT_GAS, known |-> TRUE]
        ELSE [effect |-> NoEffect,
              warnings |-> <<Warning("Unknown function signature: {}",
                                     function_sig)>>,
              raised |-> FALSE, gas |-> CONTRACT_GAS + UNKNOWN_GAS,
              known |-> FALSE]

NoCall ==
    [effect |-> NoEffect, warnings |-> <<>>, raised |-> FALSE, gas |-> 0,
     known |-> FALSE]

\* the result of a call that raised before returning
Raised(error) ==
    [raised |-> TRUE, error |-> error, success |-> FALSE, effects |-> <<>>,
     gas_used |-> 0, risk_level |-> "none", risk_score |-> 0,
     warnings |-> <<>>, contract_info |-> NoInfo,
     oracle_called |-> FALSE, decode_attempted |-> FALSE,
     decode_failed |-> FALSE]

\* lines 159-167: the ETH transfer of the value field, with the from and to
\* of the transaction swapped
eth_transfer_reversed(from_address, to_address, value) ==
    LET amount == PyInt(value)
    IN  IF ~amount.neg /\ ~AllZero(amount.mag)
        THEN <<TransactionEffect(to_address, from_address, value, "transfer",
                                 <<>>, "ETH", None)>>
        ELSE <<>>

\* lines 159-167: if int(value) > 0, the ETH transfer effect; value is kept
\* as the text that was passed
eth_transfer(from_address, to_address, value) ==
    LET amount == PyInt(value)
    IN  IF ~amount.neg /\ ~AllZero(amount.mag)
        THEN <<TransactionEffect(from_address, to_address, value, "transfer",
                                 <<>>, "ETH", None)>>
        ELSE <<>>

\* lines 169-185 without the except clause: an exception of the oracle call
\* leaves simulate_transaction
alchemy_step_uncaught(self_alchemy, data, oracle) ==
    LET called == self_alchemy # "None" /\ oracle # "unavailable" /\ Len(data) > 0
    IN  [called |-> called,
         raised |-> called /\ oracle = "raises",
         warnings |-> IF called THEN OracleWarnings(oracle) ELSE <<>>]

\* lines 169-185: the oracle is asked when there is one, it is available and
\* data is not empty; whatever it raises is caught and logged
alchemy_step(self_alchemy, data, oracle) ==
    LET called == self_alchemy # "None" /\ oracle # "unavailable" /\ Len(data) > 0
    IN  [called |-> called,
         raised |-> FALSE,
         warnings |-> IF called THEN OracleWarnings(oracle) ELSE <<>>]

\* simulate_transaction with int(value) evaluated only after the oracle call
\* and the decoding
simulate_transaction_validates_late(self_alchemy, from_address, to_address, value, data, oracle, info) ==
    LET from == to_checksum_address(from_address)
        to == to_checksum_address(to_address)
        amount == PyInt(value)
        eth == eth_transfer(from.addr, to.addr, value)
        step == alchemy_step(self_alchemy, data, oracle)
        decode_attempted == Len(data) > 10
        call == IF decode_attempted
                THEN DecodeCall(from.addr, to.addr, data) ELSE NoCall
        effects == eth \o call.effect
        warnings == step.warnings \o call.warnings
        risk == _calculate_risk(effects, warnings, to.addr)
    IN  IF ~from.ok \/ ~to.ok THEN Raised("InvalidAddress")
        ELSE IF step.raised
        THEN [Raised("Exception") EXCEPT !.oracle_called = TRUE]
        ELSE IF ~amount.ok
        THEN [Raised("ValueError") EXCEPT !.oracle_called = step.called,
                                          !.decode_attempted = decode_attempted]
        ELSE [raised |-> FALSE, error |-> "none", success |-> TRUE,
              effects |-> effects, gas_used |-> BASE_GAS + call.gas,
              risk_level |-> risk.risk_level, risk_score |-> risk.risk_score,
              warnings |-> warnings,
              contract_info |-> _get_contract_info(self_alchemy, info),
              oracle_called |-> step.called,
              decode_attempted |-> decode_attempted,
              decode_failed |-> call.raised]

\* lines 149-242.  oracle_called, decode_attempted and decode_failed record
\* how far the call went; they are not fields of SimulationResult.
simulate_transaction(self_alchemy, from_address, to_address, value, data, oracle, info) ==
    LET from == to_checksum_address(from_address)
        to == to_checksum_address(to_address)
        amount == PyInt(value)
        eth == eth_transfer(from.addr, to.addr, value)
        step == alchemy_step(self_alchemy, data, oracle)
        decode_attempted == Len(data) > 10
        call == IF decode_attempted
                THEN DecodeCall(from.addr, to.addr, data) ELSE NoCall
        effects == eth \o call.effect
        warnings == step.warnings \o call.warnings
        risk == _calculate_risk(effects, warnings, to.addr)
    IN  IF ~from.ok \/ ~to.ok THEN Raised("InvalidAddress")
        ELSE IF ~amount.ok THEN Raised("ValueError")
        ELSE IF step.raised
        THEN [Raised("Exception") EXCEPT !.oracle_called = TRUE]
        ELSE [raised |-> FALSE, error |-> "none", success |-> TRUE,
              effects |-> effects, gas_used |-> BASE_GAS + call.gas,
              risk_level |-> risk.risk_level, risk_score |-> risk.risk_score,
              warnings |-> warnings,
              contract_info |-> _get_contract_info(self_alchemy, info),
              oracle_called |-> step.called,
              decode_attempted |-> decode_attempted,
              decode_failed |-> call.raised]

(***************************************************************************)
(* analyze_transaction_data and the /simulate route                        *)
(***************************************************************************)
ZERO_ADDRESS == Prefix0x \o [i \in 1..40 |-> "0"]

\* dict.get(key, default)
Get(d, key, default) == IF key \in DOMAIN d THEN d[key] ELSE default

\* lines 576-586: the result as a dictionary
ResultDict(result) ==
    [raised |-> FALSE, error |-> "none",
     success |-> result.success, effects |-> result.effects,
     gas_used |-> result.gas_used, risk_level |-> result.risk_level,
     risk_score |-> result.risk_score, warnings |-> result.warnings,
     contract_info |-> result.contract_info]

\* no result: the exception that leaves analyze_transaction_data when
\* simulate_transaction raises, or the {"error": ...} body of the route
ErrorDict(result) ==
    [raised |-> TRUE, error |-> result.error,
     success |-> FALSE, effects |-> <<>>, gas_used |-> 0,
     risk_level |-> "none", risk_score |-> 0, warnings |-> <<>>,
     contract_info |-> NoInfo]

\* what analyze_transaction_data makes of the outcome of simulate_transaction
Returns(result) ==
    IF result.raised THEN ErrorDict(result) ELSE ResultDict(result)

\* blockchain_simulator.py, lines 556-586
analyze_transaction_data(self_alchemy, tx_data, oracle, info) ==
    Returns(simulate_transaction(self_alchemy,
                Get(tx_data, "from", ZERO_ADDRESS),
                Get(tx_data, "to", ZERO_ADDRESS),
                Get(tx_data, "value", <<"0">>),
                Get(tx_data, "data", <<>>),
                oracle, info))

\* app.py, lines 178-188: jsonify(result), or the error with status 500
Responds(result) ==
    IF result.raised THEN [status |-> 500, body |-> result]
    ELSE [status |-> 200, body |-> result]

\* app.py, lines 136-188: the handler of POST /simulate
route_simulate(self_alchemy, data, oracle, info) ==
    IF Get(data, "from", <<>>) = <<>> \/ Get(data, "to", <<>>) = <<>>
    THEN [status |-> 400, body |-> ErrorDict([error |-> "Missing 'from' or 'to' address"])]
    ELSE Responds(analyze_transaction_data(self_alchemy, data, oracle, info))

(***************************************************************************)
(* Inputs                                                                  *)
(***************************************************************************)
\* 0x742d35Cc6634C0532925a3b844Bc9e7595f0bEb0
SENDER ==
    <<"0", "x", "7", "4", "2", "d", "3", "5", "C", "c", "6", "6", "3", "4",
      "C", "0", "5", "3", "2", "9", "2", "5", "a", "3", "b", "8", "4", "4",
      "B", "c", "9", "e", "7", "5", "9", "5", "f", "0", "b", "E", "b", "0">>

\* 0xdAC17F958D2ee523a2206206994597C13D831ec7
USDT ==
    <<"0", "x", "d", "A", "C", "1", "7", "F", "9", "5", "8", "D", "2", "e",
      "e", "5", "2", "3", "a", "2", "2", "0", "6", "2", "0", "6", "9", "9",
      "4", "5", "9", "7", "C", "1", "3", "D", "8", "3", "1", "e", "c", "7">>

\* 0x1234567890123456789012345678901234567890
SPENDER ==
    <<"0", "x", "1", "2", "3", "4", "5", "6", "7", "8", "9", "0", "1", "2",
      "3", "4", "5", "6", "7", "8", "9", "0", "1", "2", "3", "4", "5", "6",
      "7", "8", "9", "0", "1", "2", "3", "4", "5", "6", "7", "8", "9", "0">>

\* not an address: too short
BAD_ADDRESS == <<"0", "x", "1", "2", "3", "4">>

AddressBytes(text) == to_checksum_address(text).addr

\* the addresses that occur as call parameters
ParamAddresses == {AddressBytes(SPENDER), AddressBytes(SENDER)}

\* eth_abi.encode of one static value (line 603 builds calldata this way)
EncodeAddress(a) == Zeros(12) \o a

EncodeUint(m) ==
    [i \in 1..SlotBytes |->
        IF i % 2 = 1 THEN m[(i + 1) \div 2] \div 256 ELSE m[i \div 2] % 256]

EncodeBool(b) == Zeros(31) \o <<IF b THEN 1 ELSE 0>>

\* amounts, as magnitudes of 16 limbs
AMOUNT_ZERO == Zeros(16)

AMOUNT_1000 == Zeros(15) \o <<1000>>

\* 0xE666...66 = ceil(0.9 * (2^256 - 1)), the least amount that is at
\* least 90% of UNLIMITED_APPROVAL
NINETY_PERCENT == <<58982>> \o [i \in 1..15 |-> 26214]

\* 0xE666...65, the greatest amount below 90% of UNLIMITED_APPROVAL
BELOW_NINETY_PERCENT == <<58982>> \o [i \in 1..14 |-> 26214] \o <<26213>>

\* the integer just below the value of the double UNLIMITED_APPROVAL * 0.9
BELOW_FLOAT_THRESHOLD ==
    <<58982, 26214, 26214, 26623>> \o [i \in 1..12 |-> 65535]

UNLIMITED_MINUS_1 == [i \in 1..15 |-> 65535] \o <<65534>>

Amounts ==
    {AMOUNT_ZERO, AMOUNT_1000, BELOW_NINETY_PERCENT, NINETY_PERCENT,
     BELOW_FLOAT_THRESHOLD, UNLIMITED_TIMES_0_9, UNLIMITED_MINUS_1,
     UNLIMITED_APPROVAL}

\* the amounts and token ids used with the three-parameter calls
FewAmounts == {AMOUNT_1000, UNLIMITED_APPROVAL}

\* "0x" + selector + encode(...).hex()
CallData(sig, words) == Selector(sig) \o HexOfBytes(words)

ApproveData(spender, amount) ==
    CallData(APPROVE_SIG, EncodeAddress(spender) \o EncodeUint(amount))

TransferData(to, amount) ==
    CallData(TRANSFER_SIG, EncodeAddress(to) \o EncodeUint(amount))

TransferFromData(from, to, amount) ==
    CallData(TRANSFER_FROM_SIG,
             EncodeAddress(from) \o EncodeAddress(to) \o EncodeUint(amount))

SafeTransferFromData(from, to, token_id) ==
    CallData(SAFE_TRANSFER_FROM_SIG,
             EncodeAddress(from) \o EncodeAddress(to) \o EncodeUint(token_id))

SetApprovalForAllData(operator, approved) ==
    CallData(SET_APPROVAL_FOR_ALL_SIG,
             EncodeAddress(operator) \o EncodeBool(approved))

WellFormed ==
    {ApproveData(a, m) : a \in ParamAddresses, m \in Amounts}
    \cup {TransferData(a, m) : a \in ParamAddresses, m \in FewAmounts}
    \cup {TransferFromData(a, b, m) :
             a \in ParamAddresses, b \in ParamAddresses, m \in FewAmounts}
    \cup {SafeTransferFromData(a, b, m) :
             a \in ParamAddresses, b \in ParamAddresses, m \in FewAmounts}
    \cup {SetApprovalForAllData(a, b) : a \in ParamAddresses, b \in BOOLEAN}

\* one well-formed call per recognized selector, the base of the malformed ones
BaseCalls ==
    {ApproveData(AddressBytes(SPENDER), UNLIMITED_APPROVAL),
     TransferData(AddressBytes(SPENDER), AMOUNT_1000),
     TransferFromData(AddressBytes(SENDER), AddressBytes(SPENDER), AMOUNT_1000),
     SafeTransferFromData(AddressBytes(SENDER), AddressBytes(SPENDER), AMOUNT_1000),
     SetApprovalForAllData(AddressBytes(SPENDER), TRUE)}

\* how many trailing bytes are cut off a call, at most
MaxCut == 2

\* how many bytes are appended to a call, at most
MaxExtra == 1

SelectorLen == 10

\* the call without its last k bytes
Truncate(d, k) == SubSeq(d, 1, Len(d) - 2 * k)

\* the call with character i replaced by c
Replace(d, i, c) == [d EXCEPT ![i] = c]

Malformed ==
    {Truncate(d, k) : d \in BaseCalls, k \in 1..MaxCut}
    \cup {Take(d, SelectorLen + 2 * k) : d \in BaseCalls, k \in 0..MaxCut}
    \cup {SubSeq(d, 1, Len(d) - 1) : d \in BaseCalls}
    \cup {Replace(d, SelectorLen + 1, "1") : d \in BaseCalls}
    \cup {Replace(d, Len(d), "z") : d \in BaseCalls}
    \cup {Replace(d, Len(d), "2") : d \in BaseCalls}

\* a well-formed call followed by more bytes
Extended == {d \o [i \in 1..(2 * k) |-> "0"] : d \in BaseCalls, k \in 1..MaxExtra}

UNKNOWN_SIG == <<"d", "e", "a", "d", "b", "e", "e", "f">>

\* calls whose first ten characters are not a registered selector
Unrecognized ==
    {CallData(UNKNOWN_SIG, EncodeAddress(AddressBytes(SPENDER))),
     CallData(UNKNOWN_SIG, <<>>),
     CallData(UNKNOWN_SIG, <<0>>),
     <<"0", "X">> \o Drop(ApproveData(AddressBytes(SPENDER), UNLIMITED_APPROVAL), 2),
     Prefix0x \o [i \in 1..8 |-> UpperHex[HexVal(APPROVE_SIG[i]) + 1]]
        \o Drop(ApproveData(AddressBytes(SPENDER), UNLIMITED_APPROVAL), 10),
     Drop(ApproveData(AddressBytes(SPENDER), UNLIMITED_APPROVAL), 2)}

\* the upper-case form of a hex digit
UpperChar(c) == IF c \in Range(LowerHex) THEN UpperHex[HexVal(c) + 1] ELSE c

\* a registered selector as the code writes it, followed by parameters in
\* upper-case hex digits
UpperCaseParameters ==
    {Take(d, SelectorLen)
        \o [i \in 1..(Len(d) - SelectorLen) |-> UpperChar(d[SelectorLen + i])] :
     d \in {ApproveData(AddressBytes(SENDER), UNLIMITED_APPROVAL)}}

DataInputs ==
    {<<>>, Prefix0x} \cup WellFormed \cup Malformed \cup Extended
    \cup Unrecognized \cup UpperCaseParameters

\* 0.1 ether in wei (TEST 2)
TENTH_ETHER == <<"1">> \o [i \in 1..17 |-> "0"]

ValueInputs == {<<"0">>, TENTH_ETHER, <<"-", "1">>, <<"a", "b", "c">>}

FromInputs == {SENDER, BAD_ADDRESS}

ToInputs == {USDT, SPENDER, BAD_ADDRESS}

\* the transaction records given to analyze_transaction_data: every subset
\* of the keys from, to, value and data, with these values
TxFrom == {SENDER, <<>>}

TxValue == {TENTH_ETHER}

TxData == {ApproveData(AddressBytes(SPENDER), UNLIMITED_APPROVAL)}

TxKeys == {"from", "to", "value", "data"}

TxInputs ==
    UNION {{[k \in keys |->
                IF k = "from" THEN from ELSE IF k = "to" THEN USDT
                ELSE IF k = "value" THEN value ELSE data] :
            from \in TxFrom, value \in TxValue, data \in TxData} :
           keys \in SUBSET TxKeys}

\* how a transaction record arrives: in a direct call of
\* analyze_transaction_data, or in the body of a POST to /simulate
Entries == {"analyze_transaction_data", "/simulate"}

(***************************************************************************)
(* State                                                                   *)
(***************************************************************************)
VARIABLES
    balances,        \* self.balances
    approvals,       \* self.approvals
    nft_approvals,   \* self.nft_approvals
    alchemy,         \* self.alchemy: "None" or "AlchemySimulator"
    requests,        \* the calls of simulate_transaction still to be made
    calls,           \* the calls made, each with what it returned
    tx_requests,     \* the transaction records still to be analyzed
    analyses,        \* the records analyzed, each with what was returned
    risk_args,       \* the arguments of a direct call of _calculate_risk
    risk_ret,        \* what that call returned, <<>> before it
    risk_prev,       \* the previous direct call, <<>> when there is none
    wallets_table,   \* wallet.db, table wallets: the committed rows
    balances_table,  \* wallet.db, table balances: the committed rows
    transactions_table, \* wallet.db, table transactions: the committed rows
    db_lock,         \* the request thread whose connection holds the write
                     \* lock of wallet.db, 0 when it is free
    workers,         \* how many request threads serve the wallet routes
    conns,           \* per request thread: the WalletManager call it is in
    wallet_calls,    \* how many WalletManager calls have been started
    _alchemy_simulator, \* alchemy_simulator._alchemy_simulator: 0 for None,
                     \* else the instance, named by the number of the
                     \* constructor run that made it
    instances,       \* how many times AlchemySimulator() has run
    threads          \* per thread: where it is in get_alchemy_simulator

walletVars ==
    <<wallets_table, balances_table, transactions_table, db_lock, workers,
      conns, wallet_calls>>

singletonVars == <<_alchemy_simulator, instances, threads>>

vars ==
    <<balances, approvals, nft_approvals, alchemy, requests, calls,
      tx_requests, analyses, risk_args, risk_ret, risk_prev, walletVars,
      singletonVars>>

simVars ==
    <<balances, approvals, nft_approvals, alchemy, requests, calls,
      tx_requests, analyses>>

riskVars == <<risk_args, risk_ret, risk_prev>>

\* wallet.db after init_database, with no request thread on the wallet routes
NoWallet ==
    /\ wallets_table = <<>>
    /\ balances_table = <<>>
    /\ transactions_table = <<>>
    /\ db_lock = 0
    /\ workers = 0
    /\ conns = <<>>
    /\ wallet_calls = 0

\* the module alchemy_simulator after import, with no thread asking for the
\* global instance
NoSingleton ==
    /\ _alchemy_simulator = 0
    /\ instances = 0
    /\ threads = <<>>

\* the simulator alone: no wallet route is served, and the global oracle
\* instance is not asked for again
SimulatorOnly == NoWallet /\ NoSingleton

EmptyMap == <<>>

Request(from, to, value, data, oracle, info) ==
    [from_address |-> from, to_address |-> to, value |-> value, data |-> data,
     oracle |-> oracle, info |-> info]

\* the calldata simulated with every outcome of the oracle; the rest is
\* simulated with the oracle unavailable and with a predicted revert
OracleData ==
    {<<>>, Prefix0x} \cup BaseCalls
    \cup {Truncate(d, 1) : d \in BaseCalls}
    \cup {ApproveData(AddressBytes(SPENDER), AMOUNT_1000),
          CallData(UNKNOWN_SIG, <<>>),
          CallData(UNKNOWN_SIG, EncodeAddress(AddressBytes(SPENDER)))}

\* what the oracle does during one call of simulate_transaction: the outcome
\* of its simulation and the metadata it has.  Without an oracle object
\* nothing of the oracle is looked at.
OracleInputs(self_alchemy, data) ==
    IF self_alchemy = "None" THEN {<<"unavailable", "unavailable">>}
    ELSE IF data \notin OracleData
    THEN {<<"unavailable", "unavailable">>, <<"reverts", "token">>}
    ELSE {<<"unavailable", "unavailable">>, <<"unavailable", "token">>,
          <<"raises", "unavailable">>, <<"success", "token">>,
          <<"reverts", "token">>, <<"reverts_no_reason", "unavailable">>,
          <<"error", "error">>}

\* EthereumSimulator.__init__, followed by the choice of the call to make:
\* simulate_transaction on a request, or the analysis of a transaction record
Init ==
    /\ balances = EmptyMap
    /\ approvals = EmptyMap
    /\ nft_approvals = EmptyMap
    /\ alchemy \in {"None", "AlchemySimulator"}
    /\ \/ /\ \E from \in FromInputs, to \in ToInputs, value \in ValueInputs,
                data \in DataInputs :
                \E o \in OracleInputs(alchemy, data) :
                   requests = <<Request(from, to, value, data, o[1], o[2])>>
          /\ tx_requests = <<>>
       \/ /\ requests = <<>>
          /\ \E entry \in Entries, tx_data \in TxInputs :
                \E o \in OracleInputs(alchemy, Get(tx_data, "data", <<>>)) :
                   tx_requests = <<[entry |-> entry, tx_data |-> tx_data,
                                    oracle |-> o[1], info |-> o[2]]>>
    /\ calls = <<>>
    /\ analyses = <<>>
    /\ risk_args = <<>>
    /\ risk_ret = <<>>
    /\ risk_prev = <<>>
    /\ SimulatorOnly

\* simulate_transaction keeping the approvals it decodes in self.approvals
SimulateTransaction_records_approvals ==
    /\ Len(requests) > 0
    /\ LET r == Head(requests)
           ret == simulate_transaction(alchemy, r.from_address, r.to_address,
                                       r.value, r.data, r.oracle, r.info)
       IN  /\ calls' = Append(calls, [args |-> r, ret |-> ret])
           /\ approvals' =
                 approvals \o SelectSeq(ret.effects,
                                  LAMBDA e : e.effect_type = "approve")
    /\ requests' = Tail(requests)
    /\ UNCHANGED <<balances, nft_approvals, alchemy>>
    /\ UNCHANGED <<tx_requests, analyses>>
    /\ UNCHANGED riskVars
    /\ UNCHANGED <<walletVars, singletonVars>>

\* one call of simulate_transaction on the simulator
SimulateTransaction ==
    /\ Len(requests) > 0
    /\ LET r == Head(requests)
       IN  calls' = Append(calls,
              [args |-> r,
               ret |-> simulate_transaction(alchemy, r.from_address,
                          r.to_address, r.value, r.data, r.oracle, r.info)])
    /\ requests' = Tail(requests)
    /\ UNCHANGED <<balances, approvals, nft_approvals, alchemy>>
    /\ UNCHANGED <<tx_requests, analyses>>
    /\ UNCHANGED riskVars
    /\ UNCHANGED <<walletVars, singletonVars>>

\* one direct call of analyze_transaction_data; the simulator it constructs
\* gets the oracle object of the process
AnalyzeTransactionData ==
    /\ Len(tx_requests) > 0
    /\ Head(tx_requests).entry = "analyze_transaction_data"
    /\ LET r == Head(tx_requests)
       IN  analyses' = Append(analyses,
              [entry |-> r.entry, tx_data |-> r.tx_data,
               oracle |-> r.oracle, info |-> r.info,
               ret |-> [status |-> 0,
                        body |-> analyze_transaction_data(alchemy, r.tx_data,
                                                          r.oracle, r.info)]])
    /\ tx_requests' = Tail(tx_requests)
    /\ UNCHANGED <<balances, approvals, nft_approvals, alchemy>>
    /\ UNCHANGED <<requests, calls>>
    /\ UNCHANGED riskVars
    /\ UNCHANGED <<walletVars, singletonVars>>

\* one POST to /simulate
PostSimulate ==
    /\ Len(tx_requests) > 0
    /\ Head(tx_requests).entry = "/simulate"
    /\ LET r == Head(tx_requests)
       IN  analyses' = Append(analyses,
              [entry |-> r.entry, tx_data |-> r.tx_data,
               oracle |-> r.oracle, info |-> r.info,
               ret |-> route_simulate(alchemy, r.tx_data, r.oracle, r.info)])
    /\ tx_requests' = Tail(tx_requests)
    /\ UNCHANGED <<balances, approvals, nft_approvals, alchemy>>
    /\ UNCHANGED <<requests, calls>>
    /\ UNCHANGED riskVars
    /\ UNCHANGED <<walletVars, singletonVars>>

Next ==
    \/ SimulateTransaction
    \/ AnalyzeTransactionData
    \/ PostSimulate

Spec == Init /\ [][Next]_vars

(***************************************************************************)
(* Several calls of simulate_transaction on one simulator without oracle   *)
(***************************************************************************)
\* how many calls are made on the simulator, at most
MaxCalls == 2

SeqRequests ==
    {Request(SENDER, USDT, value, data, "unavailable", "unavailable") :
        value \in {<<"0">>, TENTH_ETHER},
        data \in {<<>>,
                  ApproveData(AddressBytes(SPENDER), UNLIMITED_APPROVAL),
                  SetApprovalForAllData(AddressBytes(SPENDER), TRUE),
                  TransferData(AddressBytes(SPENDER), AMOUNT_1000)}}

InitSeq ==
    /\ balances = EmptyMap
    /\ approvals = EmptyMap
    /\ nft_approvals = EmptyMap
    /\ alchemy = "None"
    /\ requests \in UNION {[1..n -> SeqRequests] : n \in 1..MaxCalls}
    /\ calls = <<>>
    /\ tx_requests = <<>>
    /\ analyses = <<>>
    /\ risk_args = <<>>
    /\ risk_ret = <<>>
    /\ risk_prev = <<>>
    /\ SimulatorOnly

NextSeq == SimulateTransaction

SpecSeq == InitSeq /\ [][NextSeq]_vars

(***************************************************************************)
(* Direct calls of _calculate_risk: the first call is made on arguments    *)
(* drawn in the initial state, a second one on the same arguments with one *)
(* effect or one warning more, or in another order.  No list grows beyond  *)
(* MaxEffects or MaxWarnings.                                              *)
(***************************************************************************)
\* how many effects an argument of _calculate_risk holds, at most
MaxEffects == 2

\* how many warnings an argument of _calculate_risk holds, at most
MaxWarnings == 1

\* the effect a call appends for the given calldata (lines 196-222)
EffectOf(data) ==
    DecodeCall(AddressBytes(SENDER), AddressBytes(USDT), data).effect[1]

\* effects as the decoders and the value transfer build them
RiskEffects ==
    {EffectOf(ApproveData(AddressBytes(SPENDER), m)) :
        m \in {AMOUNT_1000, NINETY_PERCENT, UNLIMITED_APPROVAL}}
    \cup {EffectOf(SetApprovalForAllData(AddressBytes(SPENDER), b)) : b \in BOOLEAN}
    \cup {EffectOf(TransferFromData(AddressBytes(SENDER), AddressBytes(SPENDER),
                                    AMOUNT_1000)),
          EffectOf(SafeTransferFromData(AddressBytes(SENDER), AddressBytes(SPENDER),
                                        UNLIMITED_APPROVAL)),
          TransactionEffect(AddressBytes(SENDER), AddressBytes(USDT), TENTH_ETHER,
                            "transfer", <<>>, "ETH", None)}

RiskWarnings ==
    {Warning("UNLIMITED TOKEN APPROVAL DETECTED", <<>>),
     Warning("Unknown function signature: {}", Selector(UNKNOWN_SIG))}

SeqsUpTo(S, n) == UNION {[1..k -> S] : k \in 0..n}

RiskArgs(effects, warnings, to_address) ==
    [effects |-> effects, warnings |-> warnings, to_address |-> to_address]

ApplyRisk(args) == _calculate_risk(args.effects, args.warnings, args.to_address)

\* s with x put in front of position i (i = Len(s) + 1 appends)
InsertAt(s, i, x) == SubSeq(s, 1, i - 1) \o <<x>> \o SubSeq(s, i, Len(s))

\* s rearranged by the permutation p of its indices
Rearranged(s, p) == [i \in 1..Len(s) |-> s[p[i]]]

InitRisk ==
    /\ balances = EmptyMap
    /\ approvals = EmptyMap
    /\ nft_approvals = EmptyMap
    /\ alchemy = "None"
    /\ requests = <<>>
    /\ calls = <<>>
    /\ tx_requests = <<>>
    /\ analyses = <<>>
    /\ \E e \in SeqsUpTo(RiskEffects, MaxEffects),
          w \in SeqsUpTo(RiskWarnings, MaxWarnings),
          to \in {AddressBytes(USDT)} :
          risk_args = RiskArgs(e, w, to)
    /\ risk_ret = <<>>
    /\ risk_prev = <<>>
    /\ SimulatorOnly

\* the first call
CalculateRisk ==
    /\ risk_ret = <<>>
    /\ risk_ret' = <<ApplyRisk(risk_args)>>
    /\ UNCHANGED <<risk_args, risk_prev>>
    /\ UNCHANGED simVars
    /\ UNCHANGED <<walletVars, singletonVars>>

\* the second call, on new arguments
CallAgain(args) ==
    /\ risk_ret # <<>>
    /\ risk_prev = <<>>
    /\ risk_prev' = <<[args |-> risk_args, ret |-> risk_ret[1]]>>
    /\ risk_args' = args
    /\ risk_ret' = <<ApplyRisk(args)>>
    /\ UNCHANGED simVars
    /\ UNCHANGED <<walletVars, singletonVars>>

CalculateRiskWithEffect ==
    \E e \in RiskEffects, i \in 1..(Len(risk_args.effects) + 1) :
        /\ Len(risk_args.effects) < MaxEffects
        /\ CallAgain([risk_args EXCEPT !.effects = InsertAt(@, i, e)])

CalculateRiskWithWarning ==
    \E w \in RiskWarnings, i \in 1..(Len(risk_args.warnings) + 1) :
        /\ Len(risk_args.warnings) < MaxWarnings
        /\ CallAgain([risk_args EXCEPT !.warnings = InsertAt(@, i, w)])

CalculateRiskReordered ==
    \E p \in Permutations(1..Len(risk_args.effects)),
       q \in Permutations(1..Len(risk_args.warnings)) :
        CallAgain([risk_args EXCEPT !.effects = Rearranged(@, p),
                                    !.warnings = Rearranged(@, q)])

NextRisk ==
    \/ CalculateRisk
    \/ CalculateRiskWithEffect
    \/ CalculateRiskWithWarning
    \/ CalculateRiskReordered

SpecRisk == InitRisk /\ [][NextRisk]_vars

(***************************************************************************)
(* Vocabulary of the properties                                            *)
(***************************************************************************)
\* the calls made so far
Calls == Range(calls)

Returned(c) == ~c.ret.raised

\* no oracle object, or one that is not available
NoOracle(c) == alchemy = "None" \/ c.args.oracle = "unavailable"

ValueZero(c) == c.args.value = <<"0">>

ValuePositive(c) ==
    PyInt(c.args.value).ok /\ ~PyInt(c.args.value).neg
    /\ ~AllZero(PyInt(c.args.value).mag)

\* m >= 90% of 2^256 - 1 in exact arithmetic: 10 m >= 9 (2^256 - 1)
AtLeastNinetyPercent(m) ==
    MagGE(MulAdd(m, 10, 0), MulAdd(UNLIMITED_APPROVAL, 9, 0))

EffectsOfType(effects, type) ==
    {i \in 1..Len(effects) : effects[i].effect_type = type}

\* the warnings of a result that the oracle did not add
CallWarnings(c) ==
    Drop(c.ret.warnings,
         IF c.ret.oracle_called THEN Len(OracleWarnings(c.args.oracle)) ELSE 0)

\* the effects of a result that come from the calldata
CallEffects(c) ==
    Drop(c.ret.effects, IF ValuePositive(c) THEN 1 ELSE 0)

RecognizedSigs ==
    {APPROVE_SIG, TRANSFER_SIG, TRANSFER_FROM_SIG, SAFE_TRANSFER_FROM_SIG,
     SET_APPROVAL_FOR_ALL_SIG}

\* the parameter types of a recognized selector
ParamTypes(sig) ==
    IF sig \in {APPROVE_SIG, TRANSFER_SIG} THEN <<"address", "uint256">>
    ELSE IF sig = SET_APPROVAL_FOR_ALL_SIG THEN <<"address", "bool">>
    ELSE <<"address", "address", "uint256">>

\* data starts with 0x and four bytes in hexadecimal
HasSelector(data) ==
    /\ Len(data) >= SelectorLen
    /\ Take(data, 2) \in {<<"0", "x">>, <<"0", "X">>}
    /\ \A i \in 3..SelectorLen : IsHexChar(data[i])

\* the four selector bytes, as lower-case text
SelectorOf(data) == Lower(SubSeq(data, 3, SelectorLen))

\* the calldata names a recognized selector as the code compares it, and its
\* parameters cannot be decoded
UndecodableCall(data) ==
    \E sig \in RecognizedSigs :
        /\ Take(data, SelectorLen) = Selector(sig)
        /\ ~decode(ParamTypes(sig), Drop(data, SelectorLen)).ok

DecodeFailureTexts ==
    {"Failed to decode approve call: {}", "Failed to decode NFT approval: {}"}

WarningTexts(warnings) == {warnings[i].text : i \in 1..Len(warnings)}

ValidInputs(c) ==
    /\ to_checksum_address(c.args.from_address).ok
    /\ to_checksum_address(c.args.to_address).ok
    /\ PyInt(c.args.value).ok

(***************************************************************************)
(* C1                                                                      *)
(***************************************************************************)
\* C1: with value 0 and no oracle, a well-formed approve call whose amount is
\* at least 90% of 2^256 - 1 returns risk_level danger, risk_score 100 and
\* exactly one effect, of type approve.
C1_UnlimitedApproveIsDanger ==
    \A c \in Calls : \A spender \in ParamAddresses, m \in Amounts :
        (/\ Returned(c) /\ NoOracle(c) /\ ValueZero(c)
         /\ AtLeastNinetyPercent(m)
         /\ c.args.data = ApproveData(spender, m))
        => /\ c.ret.risk_level = "danger"
           /\ c.ret.risk_score = 100
           /\ Len(c.ret.effects) = 1
           /\ c.ret.effects[1].effect_type = "approve"

(***************************************************************************)
(* C2                                                                      *)
(***************************************************************************)
HasUnlimitedWarning(warnings) ==
    "UNLIMITED TOKEN APPROVAL DETECTED" \in WarningTexts(warnings)

\* C2: for every decoded approve amount a, the approve effect contributes 70
\* to the score and the unlimited-approval warning is emitted exactly when a
\* is at least 90% of 2^256 - 1; otherwise it contributes 10 and no warning
\* is emitted.
C2_ThresholdIsNinetyPercent ==
    \A c \in Calls : \A spender \in ParamAddresses, m \in Amounts :
        (Returned(c) /\ c.args.data = ApproveData(spender, m))
        => /\ Len(CallEffects(c)) = 1
           /\ EffectScore(CallEffects(c)[1])
                 = (IF AtLeastNinetyPercent(m) THEN 70 ELSE 10)
           /\ HasUnlimitedWarning(CallWarnings(c)) <=> AtLeastNinetyPercent(m)

(***************************************************************************)
(* C3                                                                      *)
(***************************************************************************)
\* the claim of C3 with n warnings for an approval that is granted
SetApprovalForAllYields(n) ==
    \A c \in Calls : \A operator \in ParamAddresses, approved \in BOOLEAN :
        (Returned(c) /\ c.args.data = SetApprovalForAllData(operator, approved))
        => /\ Len(CallEffects(c)) = 1
           /\ CallEffects(c)[1].effect_type = "setApprovalForAll"
           /\ CallEffects(c)[1].to_address = operator
           /\ CallEffects(c)[1].approval_amount
                 = (IF approved THEN <<"A", "L", "L">> ELSE <<"0">>)
           /\ Len(CallWarnings(c)) = (IF approved THEN n ELSE 0)

\* C3 as claimed: setApprovalForAll(operator, true) yields one
\* setApprovalForAll effect with marker ALL and exactly one warning;
\* setApprovalForAll(operator, false) yields marker 0 and no warning.
C3_OneWarning == SetApprovalForAllYields(1)

\* C3 as amended: setApprovalForAll(operator, true) yields one
\* setApprovalForAll effect with marker ALL and exactly three warning strings;
\* setApprovalForAll(operator, false) yields marker 0 and no warning.
C3_ThreeWarnings == SetApprovalForAllYields(3)

\* a granted collection-wide approval has been simulated
C3_Witness ==
    \E c \in Calls : \E operator \in ParamAddresses :
        /\ Returned(c)
        /\ c.args.data = SetApprovalForAllData(operator, TRUE)
        /\ Len(CallWarnings(c)) = 3

(***************************************************************************)
(* C4                                                                      *)
(***************************************************************************)
\* C4: with value 0 and no oracle, non-empty calldata whose four-byte
\* selector is not registered, the selector alone included, yields no effect,
\* exactly one unknown-function-signature warning, risk_score 15 and
\* risk_level safe.
C4_UnknownSelectorWarns ==
    \A c \in Calls :
        (/\ Returned(c) /\ NoOracle(c) /\ ValueZero(c)
         /\ HasSelector(c.args.data)
         /\ SelectorOf(c.args.data) \notin RecognizedSigs)
        => /\ c.ret.effects = <<>>
           /\ Len(c.ret.warnings) = 1
           /\ c.ret.warnings[1].text = "Unknown function signature: {}"
           /\ c.ret.risk_score = 15
           /\ c.ret.risk_level = "safe"

(***************************************************************************)
(* C5                                                                      *)
(***************************************************************************)
\* C5: when the parameters of a recognized selector cannot be decoded, the
\* result contains a decode-failure warning.
C5_DecodeFailureWarns ==
    \A c \in Calls :
        (Returned(c) /\ UndecodableCall(c.args.data))
        => WarningTexts(c.ret.warnings) \cap DecodeFailureTexts # {}

(***************************************************************************)
(* C6                                                                      *)
(***************************************************************************)
\* the decoder of a recognized selector was called and failed
DecodeFails(c) ==
    Len(c.args.data) > SelectorLen /\ UndecodableCall(c.args.data)

C7_ScoreBoundedLevelByThreshold ==
    \A c \in Calls :
        Returned(c)
        => /\ 0 <= c.ret.risk_score /\ c.ret.risk_score <= 100
           /\ c.ret.risk_level \in {"danger", "warning", "safe"}
           /\ c.ret.risk_level = "danger" <=> c.ret.risk_score >= 60
           /\ c.ret.risk_level = "warning"
                 <=> (30 <= c.ret.risk_score /\ c.ret.risk_score < 60)
           /\ c.ret.risk_level = "safe" <=> c.ret.risk_score < 30

\* a result at the lower edge of the warning level
C7_Witness ==
    \E c \in Calls :
        Returned(c) /\ c.ret.risk_score = 30 /\ c.ret.risk_level = "warning"

(***************************************************************************)
(* C8                                                                      *)
(***************************************************************************)
IsUnlimitedApprove(e) ==
    /\ e.effect_type = "approve"
    /\ PyInt(e.approval_amount).ok
    /\ AtLeastNinetyPercent(PyInt(e.approval_amount).mag)

IsOtherApprove(e) == e.effect_type = "approve" /\ ~IsUnlimitedApprove(e)

IsApprovalForAll(e) ==
    e.effect_type = "setApprovalForAll" /\ e.approval_amount = <<"A", "L", "L">>

IsTransfer(e) == e.effect_type \in {"transfer", "transferFrom"}

\* what one effect adds to the sum S of C8
ClaimedScore(e) ==
    IF IsUnlimitedApprove(e) THEN 70
    ELSE IF IsOtherApprove(e) THEN 10
    ELSE IF IsApprovalForAll(e) THEN 65
    ELSE IF IsTransfer(e) THEN 5
    ELSE 0

\* how many effects of the list add n to S
CountScore(effects, n) ==
    Cardinality({i \in 1..Len(effects) : ClaimedScore(effects[i]) = n})

\* the sum S of C8
ClaimedSum(effects, warnings) ==
    70 * CountScore(effects, 70) + 10 * CountScore(effects, 10)
    + 65 * CountScore(effects, 65) + 5 * CountScore(effects, 5)
    + 15 * Len(warnings)

\* C8: _calculate_risk returns min(100, S), where S is 70 per approve effect
\* with amount at least 90% of 2^256 - 1, 10 per other approve effect, 65 per
\* setApprovalForAll effect with marker ALL, 5 per transfer or transferFrom
\* effect and 15 per warning; empty lists give score 0 and level safe.
C8_ScoreIsCappedSum ==
    risk_ret # <<>>
    => /\ risk_ret[1].risk_score
             = Min(100, ClaimedSum(risk_args.effects, risk_args.warnings))
       /\ (risk_args.effects = <<>> /\ risk_args.warnings = <<>>)
             => risk_ret[1] = [risk_level |-> "safe", risk_score |-> 0]

(***************************************************************************)
(* C9                                                                      *)
(***************************************************************************)
\* long is short with one element more
IsInsertion(long, short) ==
    /\ Len(long) = Len(short) + 1
    /\ \E i \in 1..Len(long) :
          short = SubSeq(long, 1, i - 1) \o SubSeq(long, i + 1, Len(long))

\* the second call has one effect or one warning more than the first
OneMore ==
    /\ risk_prev # <<>>
    /\ \/ /\ IsInsertion(risk_args.effects, risk_prev[1].args.effects)
          /\ risk_args.warnings = risk_prev[1].args.warnings
       \/ /\ IsInsertion(risk_args.warnings, risk_prev[1].args.warnings)
          /\ risk_args.effects = risk_prev[1].args.effects

LevelRank(level) ==
    IF level = "safe" THEN 0 ELSE IF level = "warning" THEN 1 ELSE 2

\* C9: adding an effect or a warning to the arguments of _calculate_risk
\* never lowers risk_score and never moves risk_level to a less severe level.
C9_Monotonic ==
    OneMore
    => /\ risk_ret[1].risk_score >= risk_prev[1].ret.risk_score
       /\ LevelRank(risk_ret[1].risk_level)
             >= LevelRank(risk_prev[1].ret.risk_level)

\* an added effect has raised the level
C9_Witness ==
    /\ OneMore
    /\ IsInsertion(risk_args.effects, risk_prev[1].args.effects)
    /\ risk_prev[1].ret.risk_level = "safe"
    /\ risk_ret[1].risk_level = "danger"

(***************************************************************************)
(* C10                                                                     *)
(***************************************************************************)
IsPermutation(a, b) ==
    /\ Len(a) = Len(b)
    /\ \E p \in Permutations(1..Len(a)) : Rearranged(a, p) = b

\* the second call has the effects and the warnings of the first, reordered
Reordered ==
    /\ risk_prev # <<>>
    /\ IsPermutation(risk_prev[1].args.effects, risk_args.effects)
    /\ IsPermutation(risk_prev[1].args.warnings, risk_args.warnings)

NativeTransferOf(c) ==
    TransactionEffect(AddressBytes(c.args.from_address),
                      AddressBytes(c.args.to_address), c.args.value,
                      "transfer", <<>>, "ETH", None)

\* what the same call returns when it carries no value
WithoutValue(c) ==
    simulate_transaction(alchemy, c.args.from_address, c.args.to_address,
                         <<"0">>, c.args.data, c.args.oracle, c.args.info)

\* C11: for every transaction with value > 0, the first effect of the result
\* is the ETH transfer from the sender to the recipient carrying that value,
\* whatever the calldata; it is followed by the effects decoded from the
\* calldata, of which there is at most one.
C11_NativeTransferFirst ==
    \A c \in Calls :
        (ValidInputs(c) /\ ValuePositive(c))
        => /\ Returned(c)
           /\ Len(c.ret.effects) \in {1, 2}
           /\ c.ret.effects[1] = NativeTransferOf(c)
           /\ Drop(c.ret.effects, 1) = WithoutValue(c).effects

\* a decoded approve call carrying a value has been simulated
C11_Witness ==
    \E c \in Calls :
        /\ ValidInputs(c) /\ ValuePositive(c)
        /\ Len(c.ret.effects) = 2
        /\ c.ret.effects[1].token_symbol = "ETH"
        /\ c.ret.effects[2].effect_type = "approve"

(***************************************************************************)
(* C12                                                                     *)
(***************************************************************************)
\* C12: with value > 0, empty calldata and no oracle, the result has exactly
\* one effect, the transfer of that value from sender to recipient, no
\* warnings, risk_score 5, risk_level safe and gas estimate 21000.
C12_PlainTransfer ==
    \A c \in Calls :
        (/\ ValidInputs(c) /\ ValuePositive(c) /\ NoOracle(c)
         /\ c.args.data = <<>>)
        => /\ Returned(c)
           /\ c.ret.effects = <<NativeTransferOf(c)>>
           /\ c.ret.warnings = <<>>
           /\ c.ret.risk_score = 5
           /\ c.ret.risk_level = "safe"
           /\ c.ret.gas_used = 21000

\* 0.1 ether has been sent without calldata
C12_Witness ==
    \E c \in Calls :
        /\ ValidInputs(c) /\ NoOracle(c)
        /\ c.args.value = TENTH_ETHER
        /\ c.args.data = <<>>
        /\ c.ret.risk_score = 5
        /\ Len(c.ret.effects) = 1


(***************************************************************************)
(* C13                                                                     *)
(***************************************************************************)
\* C13: the gas estimate is 21000 when the calldata is empty, 21000 + 50000
\* when calldata is present with a recognized selector, 21000 + 50000 +
\* 100000 when calldata is present with an unrecognized selector, and takes
\* no other value.
C13_GasEstimate ==
    \A c \in Calls :
        Returned(c)
        => /\ c.ret.gas_used \in {21000, 21000 + 50000, 21000 + 50000 + 100000}
           /\ c.args.data = <<>> => c.ret.gas_used = 21000
           /\ HasSelector(c.args.data) =>
                 c.ret.gas_used =
                    (IF SelectorOf(c.args.data) \in RecognizedSigs
                     THEN 21000 + 50000 ELSE 21000 + 50000 + 100000)

(***************************************************************************)
(* C14                                                                     *)
(***************************************************************************)
\* what the same call returns on a simulator without a chain oracle
WithoutOracle(c) ==
    simulate_transaction("None", c.args.from_address, c.args.to_address,
                         c.args.value, c.args.data, "unavailable",
                         "unavailable")

\* C14: the risk_score and risk_level of a result are those returned without
\* a chain oracle, whatever the oracle does: succeed, predict a revert or
\* fail.
C14_OracleDoesNotChangeScore ==
    \A c \in Calls :
        Returned(c)
        => /\ c.ret.risk_score = WithoutOracle(c).risk_score
           /\ c.ret.risk_level = WithoutOracle(c).risk_level

(***************************************************************************)
(* C15                                                                     *)
(***************************************************************************)
\* the oracle was asked and failed: the call raised (as it does when the
\* oracle stops being available after the check of line 170), or it
\* returned an error that is not a revert
OracleFails(c) ==
    /\ alchemy # "None"
    /\ c.args.data # <<>>
    /\ c.args.oracle \in {"raises", "error"}

\* C15: when the oracle call fails, simulate_transaction does not raise: it
\* returns a result with success = true whose effects are those of local
\* decoding alone.
C15_OracleFailureIsSwallowed ==
    \A c \in Calls :
        (ValidInputs(c) /\ OracleFails(c))
        => /\ Returned(c)
           /\ c.ret.success
           /\ c.ret.effects = WithoutOracle(c).effects

\* a decoded call has been simulated while the oracle call raised
C15_Witness ==
    \E c \in Calls :
        /\ ValidInputs(c) /\ OracleFails(c)
        /\ c.args.oracle = "raises"
        /\ c.ret.oracle_called
        /\ c.ret.success
        /\ Len(CallEffects(c)) = 1

(***************************************************************************)
(* C16                                                                     *)
(***************************************************************************)
RevertText == "Transaction would REVERT on actual blockchain"

\* C16: whenever a failure of the oracle is swallowed, the result carries a
\* warning that local decoding alone does not produce, and it does not
\* report a predicted revert.
C16_OracleFailureIsVisible ==
    \A c \in Calls :
        (Returned(c) /\ OracleFails(c))
        => /\ c.ret.warnings # WithoutOracle(c).warnings
           /\ RevertText \notin WarningTexts(c.ret.warnings)


(***************************************************************************)
(* C17                                                                     *)
(***************************************************************************)
\* C17: if the from address or the to address is not an address, or the
\* value is not an integer numeral, simulate_transaction raises and returns
\* no result, and it does so before the oracle is called and before any
\* calldata is decoded.
C17_ValidationComesFirst ==
    \A c \in Calls :
        ~ValidInputs(c)
        => /\ c.ret.raised
           /\ ~c.ret.success
           /\ c.ret.effects = <<>>
           /\ ~c.ret.oracle_called
           /\ ~c.ret.decode_attempted

\* a call with a value that is not a number has raised, on a simulator whose
\* oracle was ready to answer and with calldata that decodes
C17_Witness ==
    \E c \in Calls :
        /\ c.args.value = <<"a", "b", "c">>
        /\ to_checksum_address(c.args.from_address).ok
        /\ to_checksum_address(c.args.to_address).ok
        /\ alchemy # "None" /\ c.args.oracle = "reverts"
        /\ c.args.data \in WellFormed
        /\ c.ret.raised
        /\ c.ret.error = "ValueError"

(***************************************************************************)
(* C18                                                                     *)
(***************************************************************************)
Analyses == Range(analyses)

\* C18: a transaction record that lacks from, to or value is answered with
\* an error, by analyze_transaction_data and by the route that calls it; it
\* is never simulated with a substituted address or amount.
C18_NoDefaultAddressOrAmount ==
    \A a \in Analyses :
        ~({"from", "to", "value"} \subseteq DOMAIN a.tx_data)
        => a.ret.body.raised

(***************************************************************************)
(* C19                                                                     *)
(***************************************************************************)
ValueNegative(c) ==
    PyInt(c.args.value).ok /\ PyInt(c.args.value).neg
    /\ ~AllZero(PyInt(c.args.value).mag)

\* C19: simulate_transaction with a value that denotes a negative integer
\* raises and produces no result.
C19_NegativeValueRejected ==
    \A c \in Calls : ValueNegative(c) => c.ret.raised

(***************************************************************************)
(* C20                                                                     *)
(***************************************************************************)
\* what the same call returns when the hex digits and the prefix of its
\* calldata are written in lower case
InLowerCase(c) ==
    simulate_transaction(alchemy, c.args.from_address, c.args.to_address,
                         c.args.value, Lower(c.args.data), c.args.oracle,
                         c.args.info)

\* C20: two calldata strings that differ only in the letter case of their
\* hex digits or of the 0x prefix yield the same effects, the same warning
\* messages, the same risk_score and the same risk_level.
C20_CaseInsensitive ==
    \A c \in Calls :
        Returned(c)
        => /\ c.ret.effects = InLowerCase(c).effects
           /\ WarningTexts(c.ret.warnings) = WarningTexts(InLowerCase(c).warnings)
           /\ c.ret.risk_score = InLowerCase(c).risk_score
           /\ c.ret.risk_level = InLowerCase(c).risk_level


(***************************************************************************)
(* C21                                                                     *)
(***************************************************************************)
\* what the same call returns when the metadata lookup has the outcome info
WithInfo(c, info) ==
    simulate_transaction(alchemy, c.args.from_address, c.args.to_address,
                         c.args.value, c.args.data, c.args.oracle, info)

\* the addresses given to _calculate_risk as to_address
RiskAddresses ==
    {AddressBytes(USDT), AddressBytes(SPENDER), AddressBytes(ZERO_ADDRESS)}

\* C21: for a fixed transaction and a fixed outcome of the oracle call,
\* risk_score and risk_level are the same for every contract metadata, and
\* _calculate_risk returns them for every to_address.
C21_MetadataDoesNotChangeScore ==
    \A c \in Calls :
        Returned(c)
        => /\ \A info \in InfoOutcomes \ {c.args.info} :
                 LET other == WithInfo(c, info)
                 IN  /\ other.risk_score = c.ret.risk_score
                     /\ other.risk_level = c.ret.risk_level
           /\ \A to \in RiskAddresses :
                 _calculate_risk(c.ret.effects, c.ret.warnings, to)
                    = [risk_level |-> c.ret.risk_level,
                       risk_score |-> c.ret.risk_score]

\* a call has returned the metadata of a token, and another metadata would
\* have been returned for it
C21_Witness ==
    \E c \in Calls :
        /\ Returned(c)
        /\ c.ret.contract_info.name = "Tether USD"
        /\ c.ret.risk_score > 0
        /\ WithInfo(c, "error").contract_info # c.ret.contract_info
        /\ WithInfo(c, "unavailable").contract_info # c.ret.contract_info


(***************************************************************************)
(* C22                                                                     *)
(***************************************************************************)
\* 2^256 - 1 in decimal
UNLIMITED_TEXT ==
    <<
      "1", "1", "5", "7", "9", "2", "0", "8", "9", "2", "3", "7", "3",
      "1", "6", "1", "9", "5", "4", "2", "3", "5", "7", "0", "9", "8",
      "5", "0", "0", "8", "6", "8", "7", "9", "0", "7", "8", "5", "3",
      "2", "6", "9", "9", "8", "4", "6", "6", "5", "6", "4", "0", "5",
      "6", "4", "0", "3", "9", "4", "5", "7", "5", "8", "4", "0", "0",
      "7", "9", "1", "3", "1", "2", "9", "6", "3", "9", "9", "3", "5">>

\* the decimal text of the amounts of FewAmounts
AmountText(m) ==
    IF m = AMOUNT_1000 THEN <<"1", "0", "0", "0">> ELSE UNLIMITED_TEXT

\* C22: a decoded transfer(to, amount) yields an effect from the transaction
\* sender to `to`; a decoded transferFrom(from, to, amount) yields an effect
\* from the decoded `from` to `to`; in both the token address is the
\* transaction's to address and the amount is the decoded amount.
C22_TransferSources ==
    \A c \in Calls :
        (/\ Returned(c)
         /\ Take(c.args.data, SelectorLen)
               \in {Selector(TRANSFER_SIG), Selector(TRANSFER_FROM_SIG)})
        => LET sender == AddressBytes(c.args.from_address)
               token == AddressBytes(c.args.to_address)
           IN  \A a \in ParamAddresses, b \in ParamAddresses, m \in FewAmounts :
                 /\ c.args.data = TransferData(b, m)
                    => CallEffects(c) =
                          <<TransactionEffect(sender, b, AmountText(m),
                               "transfer", token, "UNKNOWN_TOKEN", None)>>
                 /\ c.args.data = TransferFromData(a, b, m)
                    => CallEffects(c) =
                          <<TransactionEffect(a, b, AmountText(m),
                               "transferFrom", token, "UNKNOWN_TOKEN", None)>>

\* a transferFrom that moves the tokens of an address other than the sender
\* has been decoded
C22_Witness ==
    \E c \in Calls :
        /\ Returned(c)
        /\ c.args.data = TransferFromData(AddressBytes(SPENDER),
                                          AddressBytes(SENDER), AMOUNT_1000)
        /\ c.args.from_address = SENDER
        /\ Len(CallEffects(c)) = 1
        /\ CallEffects(c)[1].from_address = AddressBytes(SPENDER)
        /\ CallEffects(c)[1].from_address # AddressBytes(c.args.from_address)

(***************************************************************************)
(* C23                                                                     *)
(***************************************************************************)
\* C23: a safeTransferFrom call yields one nftTransfer effect carrying the
\* token id; for every token id, 2^256 - 1 included, the effect adds nothing
\* to the risk score and no warning is produced for it.
C23_TokenIdIsNotAnAmount ==
    \A c \in Calls :
        (/\ Returned(c)
         /\ Take(c.args.data, SelectorLen) = Selector(SAFE_TRANSFER_FROM_SIG))
        => \A a \in ParamAddresses, b \in ParamAddresses, m \in FewAmounts :
              c.args.data = SafeTransferFromData(a, b, m)
              => /\ CallEffects(c) =
                       <<TransactionEffect(a, b, AmountText(m), "nftTransfer",
                            AddressBytes(c.args.to_address), "NFT", None)>>
                 /\ CallWarnings(c) = <<>>
                 /\ c.ret.risk_score =
                       Min(100, (IF ValuePositive(c) THEN 5 ELSE 0)
                                + 15 * Len(c.ret.warnings))

\* the transfer of the NFT with token id 2^256 - 1 has been simulated without
\* value and without oracle
C23_Witness ==
    \E c \in Calls : \E a \in ParamAddresses, b \in ParamAddresses :
        /\ Returned(c) /\ NoOracle(c) /\ ValueZero(c)
        /\ c.args.data = SafeTransferFromData(a, b, UNLIMITED_APPROVAL)
        /\ AtLeastNinetyPercent(UNLIMITED_APPROVAL)
        /\ c.ret.risk_score = 0
        /\ c.ret.risk_level = "safe"


(***************************************************************************)
(* C24                                                                     *)
(***************************************************************************)
\* what a call returns when it is the first one made on a new simulator
\* without oracle
AsFirstCall(c) ==
    simulate_transaction("None", c.args.from_address, c.args.to_address,
                         c.args.value, c.args.data, "unavailable",
                         "unavailable")

DecodesToDanger(c) ==
    \E i \in DOMAIN CallEffects(c) :
        LET effect == CallEffects(c)[i]
        IN  \/ /\ effect.effect_type = "approve"
               /\ AtLeastNinetyPercent(PyInt(effect.approval_amount).mag)
            \/ /\ effect.effect_type = "setApprovalForAll"
               /\ effect.approval_amount = <<"A", "L", "L">>

\* C28: without oracle, simulate_transaction never returns risk_level
\* warning; it returns danger exactly when the calldata decodes to an approve
\* of at least 90% of 2^256 - 1 or to setApprovalForAll(operator, true), and
\* safe with a score of at most 20 otherwise.
C28_DangerOrSafe ==
    \A c \in Calls :
        (Returned(c) /\ NoOracle(c))
        => /\ c.ret.risk_level # "warning"
           /\ c.ret.risk_level = "danger" <=> DecodesToDanger(c)
           /\ ~DecodesToDanger(c)
                 => c.ret.risk_level = "safe" /\ c.ret.risk_score <= 20

(***************************************************************************)
(* The wallet ledger: WalletManager on wallet.db.  Balances and amounts    *)
(* are counted in hundredths of a token.  Every method opens a connection  *)
(* of its own.  A connection starts its transaction at its first INSERT or *)
(* UPDATE and holds the write lock of the database from there to its       *)
(* commit or rollback; what it has written is seen by the other            *)
(* connections when it commits.  A SELECT reads the committed rows and     *)
(* starts no transaction.                                                  *)
(***************************************************************************)
\* 5.42 ETH and 2480.0 USDC, the balances of a new wallet
DEFAULT_ETH == 542
DEFAULT_USDC == 248000

\* how many WalletManager calls are made, at most
MaxWalletCalls == 4

\* how many request threads serve the wallet routes at the same time
MaxWorkers == 2

WalletRow(address) == [address |-> address]

BalanceRow(address, token, balance) ==
    [wallet_address |-> address, token_symbol |-> token, balance |-> balance]

TransactionRow(address, from_token, to_token, amount_from, amount_to) ==
    [wallet_address |-> address, tx_type |-> "SWAP",
     from_token |-> from_token, to_token |-> to_token,
     amount_from |-> amount_from, amount_to |-> amount_to,
     status |-> "confirmed", risk_level |-> "safe"]

\* the rows WHERE wallet_address = ? AND token_symbol = ?
Matching(table, address, token) ==
    SelectSeq(table, LAMBDA row : /\ row.wallet_address = address
                                  /\ row.token_symbol = token)

\* cursor.fetchone() after SELECT balance: the first row, or <<>> for None
fetchone(rows) == IF rows = <<>> THEN <<>> ELSE <<rows[1].balance>>

\* UPDATE balances SET balance = balance + delta
\* WHERE wallet_address = ? AND token_symbol = ?
UpdateBalance(table, address, token, delta) ==
    [i \in 1..Len(table) |->
        IF table[i].wallet_address = address /\ table[i].token_symbol = token
        THEN [table[i] EXCEPT !.balance = @ + delta]
        ELSE table[i]]

\* get_balances: the dict of token_symbol to balance of the wallet's rows,
\* a later row replacing an earlier one of the same token
get_balances(table, address) ==
    LET rows == SelectSeq(table, LAMBDA row : row.wallet_address = address)
        last(token) ==
            CHOOSE i \in DOMAIN rows :
                /\ rows[i].token_symbol = token
                /\ \A j \in DOMAIN rows :
                      rows[j].token_symbol = token => j <= i
    IN  [token \in {rows[i].token_symbol : i \in DOMAIN rows} |->
            rows[last(token)].balance]

\* the committed rows of the three tables
Tables ==
    [wallets |-> wallets_table, balances |-> balances_table,
     transactions |-> transactions_table]

\* a request thread that is in no WalletManager call
IdleConn ==
    [pc |-> "idle", op |-> "", args |-> <<>>, before |-> <<>>,
     current_balance |-> <<>>, work |-> <<>>, lastrowid |-> 0, ret |-> <<>>]

\* the thread can take the next request
Free(t) == conns[t].pc \in {"idle", "returned"}

\* the wallet addresses, tokens and swaps asked for
WalletAddresses == {SENDER}

SwapArgs(address, from_token, to_token, amount_from, amount_to) ==
    [address |-> address, from_token |-> from_token, to_token |-> to_token,
     amount_from |-> amount_from, amount_to |-> amount_to]

SwapInputs ==
    {SwapArgs(SENDER, "ETH", "USDC", 500, 1250000),
     SwapArgs(SENDER, "ETH", "USDC", 600, 1500000),
     SwapArgs(SENDER, "USDC", "ETH", 248000, 99),
     SwapArgs(SENDER, "ETH", "DAI", 100, 250000),
     SwapArgs(SENDER, "DAI", "ETH", 100, 1),
     SwapArgs(SENDER, "USDC", "ETH", 0, 0)}

\* create_wallet writing the default balances over those of a wallet that
\* exists
CreateWallet_resets ==
    \E t \in 1..workers, address \in WalletAddresses :
        /\ Free(t)
        /\ wallet_calls < MaxWalletCalls
        /\ db_lock = 0
        /\ wallet_calls' = wallet_calls + 1
        /\ wallets_table' =
              IF \E i \in DOMAIN wallets_table :
                    wallets_table[i].address = address
              THEN wallets_table
              ELSE Append(wallets_table, WalletRow(address))
        /\ balances_table' =
              SelectSeq(balances_table,
                        LAMBDA row : row.wallet_address # address)
              \o <<BalanceRow(address, "ETH", DEFAULT_ETH),
                   BalanceRow(address, "USDC", DEFAULT_USDC)>>
        /\ conns' = [conns EXCEPT ![t] =
              [IdleConn EXCEPT
                 !.pc = "returned", !.op = "create_wallet",
                 !.args = [address |-> address], !.before = Tables,
                 !.ret = [success |-> TRUE, address |-> address]]]
        /\ UNCHANGED <<transactions_table, db_lock, workers>>
        /\ UNCHANGED <<simVars, riskVars, singletonVars>>

\* create_wallet, as one step: nothing of it is seen before its commit, and
\* the connection is closed without a commit after an IntegrityError
CreateWallet ==
    \E t \in 1..workers, address \in WalletAddresses :
        /\ Free(t)
        /\ wallet_calls < MaxWalletCalls
        /\ db_lock = 0
        /\ wallet_calls' = wallet_calls + 1
        /\ LET IntegrityError ==
                  \/ \E i \in DOMAIN wallets_table :
                        wallets_table[i].address = address
                  \/ Matching(balances_table, address, "ETH") # <<>>
                  \/ Matching(balances_table, address, "USDC") # <<>>
           IN  /\ wallets_table' =
                     IF IntegrityError THEN wallets_table
                     ELSE Append(wallets_table, WalletRow(address))
               /\ balances_table' =
                     IF IntegrityError THEN balances_table
                     ELSE balances_table
                          \o <<BalanceRow(address, "ETH", DEFAULT_ETH),
                               BalanceRow(address, "USDC", DEFAULT_USDC)>>
               /\ conns' = [conns EXCEPT ![t] =
                     [IdleConn EXCEPT
                        !.pc = "returned", !.op = "create_wallet",
                        !.args = [address |-> address], !.before = Tables,
                        !.ret = IF IntegrityError
                                THEN [success |-> FALSE,
                                      error |-> "Wallet already exists"]
                                ELSE [success |-> TRUE,
                                      address |-> address]]]
        /\ UNCHANGED <<transactions_table, db_lock, workers>>
        /\ UNCHANGED <<simVars, riskVars, singletonVars>>

\* the start of execute_swap with a check that passes whenever the wallet
\* has a row of from_token
ExecuteSwapSelect_unchecked ==
    \E t \in 1..workers, args \in SwapInputs :
        /\ Free(t)
        /\ wallet_calls < MaxWalletCalls
        /\ wallet_calls' = wallet_calls + 1
        /\ LET current_balance ==
                  fetchone(Matching(balances_table, args.address,
                                    args.from_token))
               insufficient == current_balance = <<>>
           IN  conns' = [conns EXCEPT ![t] =
                  [IdleConn EXCEPT
                     !.pc = IF insufficient THEN "returned" ELSE "debit",
                     !.op = "execute_swap", !.args = args,
                     !.before = Tables,
                     !.current_balance = current_balance,
                     !.ret = IF insufficient
                             THEN [success |-> FALSE,
                                   error |-> "Insufficient balance"]
                             ELSE <<>>]]
        /\ UNCHANGED <<wallets_table, balances_table, transactions_table,
                       db_lock, workers>>
        /\ UNCHANGED <<simVars, riskVars, singletonVars>>

\* the start of execute_swap: the connection is opened, the balance of
\* from_token is selected and checked against amount_from
ExecuteSwapSelect ==
    \E t \in 1..workers, args \in SwapInputs :
        /\ Free(t)
        /\ wallet_calls < MaxWalletCalls
        /\ wallet_calls' = wallet_calls + 1
        /\ LET current_balance ==
                  fetchone(Matching(balances_table, args.address,
                                    args.from_token))
               insufficient ==
                  \/ current_balance = <<>>
                  \/ current_balance[1] < args.amount_from
           IN  conns' = [conns EXCEPT ![t] =
                  [IdleConn EXCEPT
                     !.pc = IF insufficient THEN "returned" ELSE "debit",
                     !.op = "execute_swap", !.args = args,
                     !.before = Tables,
                     !.current_balance = current_balance,
                     !.ret = IF insufficient
                             THEN [success |-> FALSE,
                                   error |-> "Insufficient balance"]
                             ELSE <<>>]]
        /\ UNCHANGED <<wallets_table, balances_table, transactions_table,
                       db_lock, workers>>
        /\ UNCHANGED <<simVars, riskVars, singletonVars>>

\* the first UPDATE: the transaction begins, the write lock is taken and
\* amount_from is deducted from the rows of from_token
ExecuteSwapDebit ==
    \E t \in 1..workers :
        /\ conns[t].pc = "debit"
        /\ db_lock = 0
        /\ db_lock' = t
        /\ conns' = [conns EXCEPT
              ![t].pc = "credit",
              ![t].work =
                 [balances |->
                     UpdateBalance(balances_table, conns[t].args.address,
                                   conns[t].args.from_token,
                                   0 - conns[t].args.amount_from),
                  transactions |-> transactions_table]]
        /\ UNCHANGED <<wallets_table, balances_table, transactions_table,
                       workers, wallet_calls>>
        /\ UNCHANGED <<simVars, riskVars, singletonVars>>

\* the second UPDATE: amount_to is added to the rows of to_token
ExecuteSwapCredit ==
    \E t \in 1..workers :
        /\ conns[t].pc = "credit"
        /\ conns' = [conns EXCEPT
              ![t].pc = "insert",
              ![t].work.balances =
                 UpdateBalance(@, conns[t].args.address,
                               conns[t].args.to_token,
                               conns[t].args.amount_to)]
        /\ UNCHANGED <<wallets_table, balances_table, transactions_table,
                       db_lock, workers, wallet_calls>>
        /\ UNCHANGED <<simVars, riskVars, singletonVars>>

\* the INSERT of the transaction record
ExecuteSwapInsert ==
    \E t \in 1..workers :
        /\ conns[t].pc = "insert"
        /\ conns' = [conns EXCEPT
              ![t].pc = "commit",
              ![t].work.transactions =
                 Append(@, TransactionRow(conns[t].args.address,
                                          conns[t].args.from_token,
                                          conns[t].args.to_token,
                                          conns[t].args.amount_from,
                                          conns[t].args.amount_to)),
              ![t].lastrowid = Len(conns[t].work.transactions) + 1]
        /\ UNCHANGED <<wallets_table, balances_table, transactions_table,
                       db_lock, workers, wallet_calls>>
        /\ UNCHANGED <<simVars, riskVars, singletonVars>>

\* conn.commit()
ExecuteSwapCommit ==
    \E t \in 1..workers :
        /\ conns[t].pc = "commit"
        /\ balances_table' = conns[t].work.balances
        /\ transactions_table' = conns[t].work.transactions
        /\ db_lock' = 0
        /\ conns' = [conns EXCEPT ![t].pc = "get_balances", ![t].work = <<>>]
        /\ UNCHANGED <<wallets_table, workers, wallet_calls>>
        /\ UNCHANGED <<simVars, riskVars, singletonVars>>

\* the balances are read again and execute_swap returns success
ExecuteSwapReturn ==
    \E t \in 1..workers :
        /\ conns[t].pc = "get_balances"
        /\ conns' = [conns EXCEPT
              ![t].pc = "returned",
              ![t].ret =
                 [success |-> TRUE,
                  balances |-> get_balances(balances_table,
                                            conns[t].args.address),
                  tx_id |-> conns[t].lastrowid]]
        /\ UNCHANGED <<wallets_table, balances_table, transactions_table,
                       db_lock, workers, wallet_calls>>
        /\ UNCHANGED <<simVars, riskVars, singletonVars>>

\* the first UPDATE while another connection holds the write lock for longer
\* than the connection waits: the statement raises, the handler rolls back
\* and returns the text of the exception
ExecuteSwapBusy ==
    \E t \in 1..workers :
        /\ conns[t].pc = "debit"
        /\ db_lock \notin {0, t}
        /\ conns' = [conns EXCEPT
              ![t].pc = "returned",
              ![t].ret = [success |-> FALSE, error |-> "database is locked"]]
        /\ UNCHANGED <<wallets_table, balances_table, transactions_table,
                       db_lock, workers, wallet_calls>>
        /\ UNCHANGED <<simVars, riskVars, singletonVars>>

\* no simulation is asked for
NoSimulation ==
    /\ balances = EmptyMap
    /\ approvals = EmptyMap
    /\ nft_approvals = EmptyMap
    /\ alchemy = "None"
    /\ requests = <<>>
    /\ calls = <<>>
    /\ tx_requests = <<>>
    /\ analyses = <<>>
    /\ risk_args = <<>>
    /\ risk_ret = <<>>
    /\ risk_prev = <<>>

\* WalletManager.__init__ on a new wallet.db, served by n request threads
WalletManagerInit(n) ==
    /\ wallets_table = <<>>
    /\ balances_table = <<>>
    /\ transactions_table = <<>>
    /\ db_lock = 0
    /\ workers = n
    /\ conns = [t \in 1..n |-> IdleConn]
    /\ wallet_calls = 0

\* the wallet routes served one request at a time
InitWallet == NoSimulation /\ NoSingleton /\ WalletManagerInit(1)

NextWallet ==
    \/ CreateWallet
    \/ ExecuteSwapSelect
    \/ ExecuteSwapDebit
    \/ ExecuteSwapCredit
    \/ ExecuteSwapInsert
    \/ ExecuteSwapCommit
    \/ ExecuteSwapReturn

SpecWallet == InitWallet /\ [][NextWallet]_vars

\* the wallet routes served by several request threads
InitWalletConcurrent ==
    NoSimulation /\ NoSingleton /\ WalletManagerInit(MaxWorkers)

NextWalletConcurrent ==
    \/ CreateWallet
    \/ ExecuteSwapSelect
    \/ ExecuteSwapDebit
    \/ ExecuteSwapCredit
    \/ ExecuteSwapInsert
    \/ ExecuteSwapCommit
    \/ ExecuteSwapReturn
    \/ ExecuteSwapBusy

SpecWalletConcurrent == InitWalletConcurrent /\ [][NextWalletConcurrent]_vars


(***************************************************************************)
(* Vocabulary of the wallet claims                                         *)
(***************************************************************************)
\* the request threads whose call of the given method has returned
ReturnedFrom(op) ==
    {t \in 1..workers : conns[t].pc = "returned" /\ conns[t].op = op}

\* the balance the wallet has of the token in the table, 0 without a row
BalanceOf(table, address, token) ==
    IF Matching(table, address, token) = <<>> THEN 0
    ELSE Matching(table, address, token)[1].balance

InsufficientBalance == [success |-> FALSE, error |-> "Insufficient balance"]

WalletAlreadyExists == [success |-> FALSE, error |-> "Wallet already exists"]

\* every balance, committed or written and not yet committed, is at least 0
NoOverdraft ==
    /\ \A i \in DOMAIN balances_table : balances_table[i].balance >= 0
    /\ \A t \in 1..workers :
          conns[t].work # <<>>
          => \A i \in DOMAIN conns[t].work.balances :
                conns[t].work.balances[i].balance >= 0

(***************************************************************************)
(* C25                                                                     *)
(***************************************************************************)
\* C25: with one request served at a time, no balance is ever negative, and
\* an execute_swap whose amount_from exceeds the balance of from_token, or
\* whose from_token has no row, returns 'Insufficient balance' with the
\* balances and the transactions as they were before the call.
C25_NoOverdraft ==
    /\ NoOverdraft
    /\ \A t \in ReturnedFrom("execute_swap") :
          LET c == conns[t]
              rows == Matching(c.before.balances, c.args.address,
                               c.args.from_token)
          IN  (rows = <<>> \/ rows[1].balance < c.args.amount_from)
              => /\ c.ret = InsufficientBalance
                 /\ balances_table = c.before.balances
                 /\ transactions_table = c.before.transactions

\* a swap has been refused because an earlier swap had spent the balance
C25_Witness ==
    \E t \in ReturnedFrom("execute_swap") :
        /\ conns[t].ret = InsufficientBalance
        /\ conns[t].args.from_token = "ETH"
        /\ conns[t].args.amount_from = 500
        /\ conns[t].before.transactions # <<>>
        /\ BalanceOf(balances_table, SENDER, "ETH") = 42

(***************************************************************************)
(* C26                                                                     *)
(***************************************************************************)
\* C26: with several execute_swap calls of one wallet in progress at the
\* same time, each on a connection of its own, no balance is ever negative.
C26_NoOverdraftConcurrently ==
    \A i \in DOMAIN balances_table : balances_table[i].balance >= 0

(***************************************************************************)
(* C27                                                                     *)
(***************************************************************************)
\* C27: when execute_swap returns success, the balance of from_token is
\* amount_from below what it was, the balance of to_token is amount_to above
\* what it was (a token without a row counting as 0 before), and one SWAP
\* row has been added to the transactions; when it returns failure, the
\* balances and the transactions are what they were.
C27_AllOrNothing ==
    \A t \in ReturnedFrom("execute_swap") :
        LET c == conns[t]
        IN  IF c.ret.success
            THEN /\ BalanceOf(balances_table, c.args.address,
                              c.args.from_token)
                       = BalanceOf(c.before.balances, c.args.address,
                                   c.args.from_token) - c.args.amount_from
                 /\ BalanceOf(balances_table, c.args.address, c.args.to_token)
                       = BalanceOf(c.before.balances, c.args.address,
                                   c.args.to_token) + c.args.amount_to
                 /\ transactions_table
                       = Append(c.before.transactions,
                                TransactionRow(c.args.address,
                                               c.args.from_token,
                                               c.args.to_token,
                                               c.args.amount_from,
                                               c.args.amount_to))
            ELSE /\ balances_table = c.before.balances
                 /\ transactions_table = c.before.transactions

(***************************************************************************)
(* C29                                                                     *)
(***************************************************************************)
\* C29: create_wallet on an address that has a row in wallets returns
\* 'Wallet already exists' and leaves wallets and balances as they were;
\* on a new address it returns success and adds the rows ETH = 5.42 and
\* USDC = 2480.0, and nothing else, to balances.
C29_CreateWallet ==
    \A t \in ReturnedFrom("create_wallet") :
        LET c == conns[t]
        IN  IF \E i \in DOMAIN c.before.wallets :
                  c.before.wallets[i].address = c.args.address
            THEN /\ c.ret = WalletAlreadyExists
                 /\ wallets_table = c.before.wallets
                 /\ balances_table = c.before.balances
            ELSE /\ c.ret = [success |-> TRUE, address |-> c.args.address]
                 /\ wallets_table
                       = Append(c.before.wallets, WalletRow(c.args.address))
                 /\ balances_table
                       = c.before.balances
                         \o <<BalanceRow(c.args.address, "ETH", DEFAULT_ETH),
                              BalanceRow(c.args.address, "USDC", DEFAULT_USDC)>>
                 /\ get_balances(balances_table, c.args.address)
                       = [token \in {"ETH", "USDC"} |->
                             IF token = "ETH" THEN 542 ELSE 248000]

\* create_wallet has been refused for a wallet whose balances are no longer
\* the default ones
C29_Witness ==
    \E t \in ReturnedFrom("create_wallet") :
        /\ conns[t].ret = WalletAlreadyExists
        /\ BalanceOf(balances_table, SENDER, "ETH") = 42
        /\ BalanceOf(balances_table, SENDER, "USDC") = 1498000
        /\ Len(balances_table) = 2


(***************************************************************************)
(* get_alchemy_simulator called from several threads, each of them         *)
(* constructing an EthereumSimulator.  A thread can be suspended between   *)
(* any two of: the test of the global, the constructor, the assignment to  *)
(* the global and the read of the global for the return.                   *)
(***************************************************************************)
\* how many threads call get_alchemy_simulator
MaxThreads == 3

\* a thread at the call of get_alchemy_simulator
AtCall == [pc |-> "test", made |-> 0, ret |-> 0]

InitSingleton ==
    /\ NoSimulation
    /\ NoWallet
    /\ _alchemy_simulator = 0
    /\ instances = 0
    /\ threads = [t \in 1..MaxThreads |-> AtCall]

\* if _alchemy_simulator is None
GetTest ==
    \E t \in DOMAIN threads :
        /\ threads[t].pc = "test"
        /\ threads' = [threads EXCEPT
              ![t].pc = IF _alchemy_simulator = 0 THEN "construct"
                        ELSE "return"]
        /\ UNCHANGED <<_alchemy_simulator, instances>>
        /\ UNCHANGED <<simVars, riskVars, walletVars>>

\* AlchemySimulator()
GetConstruct ==
    \E t \in DOMAIN threads :
        /\ threads[t].pc = "construct"
        /\ instances' = instances + 1
        /\ threads' = [threads EXCEPT
              ![t].pc = "assign", ![t].made = instances + 1]
        /\ UNCHANGED _alchemy_simulator
        /\ UNCHANGED <<simVars, riskVars, walletVars>>

\* _alchemy_simulator = the new instance
GetAssign ==
    \E t \in DOMAIN threads :
        /\ threads[t].pc = "assign"
        /\ _alchemy_simulator' = threads[t].made
        /\ threads' = [threads EXCEPT ![t].pc = "return"]
        /\ UNCHANGED instances
        /\ UNCHANGED <<simVars, riskVars, walletVars>>

\* return _alchemy_simulator
GetReturn ==
    \E t \in DOMAIN threads :
        /\ threads[t].pc = "return"
        /\ threads' = [threads EXCEPT
              ![t].pc = "returned", ![t].ret = _alchemy_simulator]
        /\ UNCHANGED <<_alchemy_simulator, instances>>
        /\ UNCHANGED <<simVars, riskVars, walletVars>>

NextSingleton == GetTest \/ GetConstruct \/ GetAssign \/ GetReturn

SpecSingleton == InitSingleton /\ [][NextSingleton]_vars

(***************************************************************************)
(* C30                                                                     *)
(***************************************************************************)
\* C30: however the calls of get_alchemy_simulator are interleaved, the
\* constructor of AlchemySimulator runs at most once and all the callers
\* that have returned have received the same instance.
C30_OneInstance ==
    /\ instances <= 1
    /\ \A t, u \in DOMAIN threads :
          (threads[t].pc = "returned" /\ threads[u].pc = "returned")
          => threads[t].ret = threads[u].ret

=============================================================================
